---- MODULE Spec2Model ----
(***************************************************************************)
(* gotas: the sync path of the task server.                                *)
(*                                                                         *)
(* A transaction log (tx.data) is a sequence of lines; a line is either a  *)
(* task record in JSON (it starts with "{") or a sync key (a UUID).  A     *)
(* JSON task is modelled as a function from attribute names to JSON        *)
(* values, a parsed Task as a function from attribute names to internal    *)
(* values (dates as epoch seconds, tags as the comma separated list).      *)
(* Go slices are indexed from 0: At(data, i) is data[i].                   *)
(***************************************************************************)
EXTENDS Integers, Sequences, FiniteSets, TLC

\* Number of requests the workers take altogether.
MaxSyncs == 2

\* The latest epoch a date of a task carries.
MaxEpoch == 4

Epochs == 0 .. MaxEpoch

At(data, i) == data[i + 1]

Max(S) == CHOOSE x \in S : \A y \in S : y <= x

Min(S) == CHOOSE x \in S : \A y \in S : x <= y

IsPrefix(s, t) == Len(s) <= Len(t) /\ SubSeq(t, 1, Len(s)) = s

Range(s) == {s[i] : i \in DOMAIN s}

(***************************************************************************)
(* Task codec (pkg/task/task.go)                                           *)
(***************************************************************************)

\* The zero time.Time, earlier than every date a task carries.
ZeroTime == 0

attributeTypes ==
  [depends |-> "string", description |-> "string", due |-> "date",
   end |-> "date", entry |-> "date", id |-> "string", imask |-> "numeric",
   mask |-> "string", modification |-> "date", modified |-> "date",
   parent |-> "string", priority |-> "string", project |-> "string",
   recur |-> "duration", scheduled |-> "date", start |-> "date",
   status |-> "string", tags |-> "string", until |-> "date",
   urgency |-> "string", uuid |-> "string", wait |-> "date"]

AttrType(a) == IF a \in DOMAIN attributeTypes THEN attributeTypes[a] ELSE ""

\* time.Format(DateLayout) of an epoch, and time.Parse(DateLayout, v).
FormatDate(n) == "date-" \o ToString(n)

IsDate(v) == \E n \in Epochs : FormatDate(n) = v

ParseDate(v) == CHOOSE n \in Epochs : FormatDate(n) = v

\* The pseudo attribute an annotation is flattened into.
AnnotationName(n) == "annotation_" \o ToString(n)

IsAnnotation(a) == \E n \in Epochs : AnnotationName(n) = a

AnnotationEpoch(a) == CHOOSE n \in Epochs : AnnotationName(n) = a

Get(t, name) == IF name \in DOMAIN t THEN t[name] ELSE ""

\* GetInt: strconv.Atoi of the attribute, 0 when it is missing or no integer.
GetInt(t, name) ==
  IF name \in DOMAIN t /\ \E n \in Epochs : ToString(n) = t[name]
    THEN CHOOSE n \in Epochs : ToString(n) = t[name]
    ELSE 0

Has(t, name) == name \in DOMAIN t

GetDate(t, name) == IF name \in DOMAIN t THEN t[name] ELSE ZeroTime

SetDate(t, name, d) == [a \in DOMAIN t \cup {name} |-> IF a = name THEN d ELSE t[a]]

\* addTag over the tags of a JSON array, in order: a tag already there is
\* not added twice.
RECURSIVE addTags(_, _)
addTags(tags, acc) ==
  IF tags = <<>> THEN acc
  ELSE addTags(Tail(tags),
               IF Head(tags) \in Range(acc) THEN acc ELSE Append(acc, Head(tags)))

\* The inputs parseJSON rejects: a date that is not in DateLayout, in a date
\* attribute or in the entry of an annotation.
parseJSONFails(j) ==
  \/ \E a \in DOMAIN j \ {"id", "urgency"} : AttrType(a) = "date" /\ ~IsDate(j[a])
  \/ /\ "annotations" \in DOMAIN j
     /\ \E an \in j["annotations"] : ~IsDate(an.entry)

\* parseJSON of a line the JSON decoder accepts; a numeric attribute comes as
\* a JSON number, which %v prints in decimal.  (An object carrying both
\* "modification" and "modified" is outside the inputs drawn here.)
parseJSON(j) ==
  LET plain  == DOMAIN j \ {"id", "urgency", "modification", "tags", "annotations"}
      tagDom == IF "tags" \in DOMAIN j /\ j["tags"] # <<>> THEN {"tags"} ELSE {}
      modDom == IF "modification" \in DOMAIN j THEN {"modified"} ELSE {}
      anns   == IF "annotations" \in DOMAIN j THEN j["annotations"] ELSE {}
      annDom == {AnnotationName(ParseDate(an.entry)) : an \in anns}
  IN  [a \in {"uuid"} \cup plain \cup tagDom \cup modDom \cup annDom |->
         IF a \in annDom
           THEN (CHOOSE an \in anns : AnnotationName(ParseDate(an.entry)) = a).description
         ELSE IF a = "modified" /\ "modification" \in DOMAIN j
           THEN ParseDate(j["modification"])
         ELSE IF a = "tags" THEN addTags(j["tags"], <<>>)
         ELSE IF a = "uuid"
           THEN (IF "uuid" \in DOMAIN j THEN j["uuid"] ELSE "<nil>")
         ELSE IF AttrType(a) = "date" THEN ParseDate(j[a])
         ELSE IF AttrType(a) = "numeric" THEN ToString(j[a])
         ELSE j[a]]

\* ComposeJSON: the JSON a task is stored and sent as.  The annotations
\* array is a set here, its order being the iteration order of a Go map.
ComposeJSON(t) ==
  LET anns == {a \in DOMAIN t : IsAnnotation(a)}
      kept == {a \in DOMAIN t \ anns :
                 \/ AttrType(a) \in {"date", "numeric"}
                 \/ a \in {"tags", "depends"}
                 \/ t[a] # ""}
  IN  [a \in kept \cup (IF anns = {} THEN {} ELSE {"annotations"}) |->
         IF a = "annotations"
           THEN {[entry |-> FormatDate(AnnotationEpoch(n)), description |-> t[n]] : n \in anns}
         ELSE IF AttrType(a) = "date" THEN FormatDate(GetDate(t, a))
         ELSE IF AttrType(a) = "numeric" THEN GetInt(t, a)
         ELSE t[a]]

(***************************************************************************)
(* Log and payload lines                                                   *)
(***************************************************************************)

TaskLine(j) == [kind |-> "task", json |-> j]

KeyLine(k) == [kind |-> "key", key |-> k]

\* strings.HasPrefix(line, "{")
IsTaskLine(l) == l.kind = "task"

\* NewTask of a line that starts with "{".
NewTaskFails(l) == parseJSONFails(l.json)

NewTask(l) == parseJSON(l.json)

\* uuid.New().String(): the n-th key the server mints.
NewUUID(n) == "key-" \o ToString(n)

NilUUID == "00000000-0000-0000-0000-000000000000"

\* A well formed UUID no sync ever returned.
UnknownUUID == "ffffffff-ffff-4fff-bfff-ffffffffffff"

NotAUUID == "not-a-uuid"

\* uuid.Parse succeeds.
IsUUID(s) == s # "" /\ s # NotAUUID

(***************************************************************************)
(* Merge engine (task/server.go)                                           *)
(***************************************************************************)

\* getClientData: the sync key is the last line that parses as a UUID, the
\* tasks are the lines starting with "{" that parse; a line that does not
\* parse is logged and skipped.
getClientData(payload) ==
  LET keyIdx == {i \in DOMAIN payload :
                   /\ ~IsTaskLine(payload[i])
                   /\ payload[i].key # ""
                   /\ IsUUID(payload[i].key)}
      lines  == SelectSeq(payload, LAMBDA l : IsTaskLine(l) /\ ~NewTaskFails(l))
  IN  [tx    |-> IF keyIdx = {} THEN "" ELSE payload[Max(keyIdx)].key,
       tasks |-> [i \in DOMAIN lines |-> NewTask(lines[i])]]

\* value == key, for a line of the log
LineIs(l, key) == ~IsTaskLine(l) /\ l.key = key

\* Faulty variant: a key that is found restarts from the head of the log.
findBranchPointFromStart(data, key) ==
  IF key = "" THEN 0
  ELSE IF \E i \in 0 .. Len(data) - 1 : LineIs(At(data, i), key) THEN 0
  ELSE -1

\* Faulty variant: a key that is not found counts as a first sync.
findBranchPointLenient(data, key) ==
  IF key = "" THEN 0
  ELSE IF \E i \in 0 .. Len(data) - 1 : LineIs(At(data, i), key)
    THEN Min({i \in 0 .. Len(data) - 1 : LineIs(At(data, i), key)})
  ELSE 0

findBranchPoint(data, key) ==
  IF key = "" THEN 0
  ELSE IF \E i \in 0 .. Len(data) - 1 : LineIs(At(data, i), key)
    THEN Min({i \in 0 .. Len(data) - 1 : LineIs(At(data, i), key)})
  ELSE -1

\* The indexes of the task lines at or after the branch point.
subsetIdx(data, branchPoint) ==
  {i \in branchPoint .. Len(data) - 1 : IsTaskLine(At(data, i))}

extractSubsetFails(data, branchPoint) ==
  \E i \in subsetIdx(data, branchPoint) : NewTaskFails(At(data, i))

extractSubset(data, branchPoint) ==
  LET lines == SelectSeq(SubSeq(data, branchPoint + 1, Len(data)), IsTaskLine)
  IN  [i \in DOMAIN lines |-> NewTask(lines[i])]

taskContains(taskList, name, value) ==
  \E i \in DOMAIN taskList : Get(taskList[i], name) = value

\* The task lines findCommonAncestor reads before it returns: from the
\* branch point down to the first one that carries the uuid or fails to
\* parse.
ancestorHits(data, branchPoint, uuid) ==
  {i \in 0 .. branchPoint :
     /\ IsTaskLine(At(data, i))
     /\ \/ NewTaskFails(At(data, i))
        \/ Get(NewTask(At(data, i)), "uuid") = uuid}

findCommonAncestorFails(data, branchPoint, uuid) ==
  \/ ancestorHits(data, branchPoint, uuid) = {}
  \/ NewTaskFails(At(data, Max(ancestorHits(data, branchPoint, uuid))))

\* Faulty variant: the search runs upwards from the start of the log.
findOldestAncestor(data, branchPoint, uuid) ==
  Min(ancestorHits(data, branchPoint, uuid))

findCommonAncestor(data, branchPoint, uuid) ==
  Max(ancestorHits(data, branchPoint, uuid))

getClientMods(data, uuid) ==
  SelectSeq(data, LAMBDA t : Get(t, "uuid") = uuid)

getServerModsFails(data, uuid, ancestor) ==
  \E i \in ancestor + 1 .. Len(data) - 1 :
     IsTaskLine(At(data, i)) /\ NewTaskFails(At(data, i))

getServerMods(data, uuid, ancestor) ==
  LET lines == SelectSeq(SubSeq(data, ancestor + 2, Len(data)),
                         LAMBDA l : IsTaskLine(l) /\ Get(NewTask(l), "uuid") = uuid)
  IN  [i \in DOMAIN lines |-> NewTask(lines[i])]

lastModification(t) ==
  IF Has(t, "modified") THEN GetDate(t, "modified")
  ELSE IF Has(t, "end") THEN GetDate(t, "end")
  ELSE IF Has(t, "start") THEN GetDate(t, "start")
  ELSE GetDate(t, "entry")

\* Faulty variant: the newer snapshot replaces the base as a whole.
patchOverwrite(base, from, to) == to

\* patch: the delta between from and to, applied to base.
patch(base, from, to) ==
  LET fromOnly == DOMAIN from \ DOMAIN to
      toOnly   == DOMAIN to \ DOMAIN from
      changed  == {a \in DOMAIN from \cap DOMAIN to : from[a] # to[a]}
  IN  [a \in ((DOMAIN base \ fromOnly) \cup toOnly \cup changed) |->
         IF a \in toOnly \cup changed THEN to[a] ELSE base[a]]

\* Faulty variant: a tie goes to the left.
leftFirstOrEqual(modLeft, modRight) == modLeft <= modRight

\* Faulty variant: the left modifications are drained before the right ones.
leftFirstAlways(modLeft, modRight) == TRUE

\* modLeft.Before(modRigth): the left (client) modification is applied now.
leftFirst(modLeft, modRight) == modLeft < modRight

\* One patch of mergeSort, followed by combined.SetDate("modified", ...).
applyMod(combined, prev, mod) ==
  SetDate(patch(combined, prev, mod), "modified", lastModification(mod))

RECURSIVE mergeLoop(_, _, _, _, _, _, _)
mergeLoop(left, right, idxLeft, idxRight, prevLeft, prevRight, combined) ==
  IF idxLeft <= Len(left) /\ idxRight <= Len(right)
    THEN IF leftFirst(lastModification(left[idxLeft]), lastModification(right[idxRight]))
           THEN mergeLoop(left, right, idxLeft + 1, idxRight, left[idxLeft], prevRight,
                          applyMod(combined, prevLeft, left[idxLeft]))
           ELSE mergeLoop(left, right, idxLeft, idxRight + 1, prevLeft, right[idxRight],
                          applyMod(combined, prevRight, right[idxRight]))
  ELSE IF idxLeft <= Len(left)
    THEN mergeLoop(left, right, idxLeft + 1, idxRight, left[idxLeft], prevRight,
                   applyMod(combined, prevLeft, left[idxLeft]))
  ELSE IF idxRight <= Len(right)
    THEN mergeLoop(left, right, idxLeft, idxRight + 1, prevLeft, right[idxRight],
                   applyMod(combined, prevRight, right[idxRight]))
  ELSE combined

\* mergeSort: the task `combined` holds when mergeSort returns.
mergeSort(left, right, combined) ==
  mergeLoop(left, right, 1, 1, combined, combined, combined)

BranchPointNotFound ==
  "Could not find the last sync transaction. Did you skip the 'task sync init' requirement?"

\* Faulty variant: the error names the task and gives no hint.
ancestorErrorPlain(uuid) ==
  "could not find common ancestor for \"" \o uuid \o "\""

AncestorNotFound(uuid) ==
  "could not find common ancestor for \"" \o uuid
    \o "\". Did you skip the 'task sync init' requirement?"

\* ErrorCodes[200] and ErrorCodes[201]
StatusOk == "Ok"

StatusNoChange == "No change"

NewResponseMessage(code, status) ==
  [code |-> code, status |-> status, payload |-> <<>>]

\* Faulty variant: no UUID counts as merged already.
neverMerged(alreadySeen, uuid) == FALSE

\* _, ok := alreadySeen[uuid]
alreadyMerged(alreadySeen, uuid) == uuid \in alreadySeen

\* Faulty variant: the task is stored twice.
storeTaskTwice(newServerData, clientTask) ==
  Append(Append(newServerData, TaskLine(ComposeJSON(clientTask))),
         TaskLine(ComposeJSON(clientTask)))

\* A task that is not in the subset is stored unmodified.
storeTask(newServerData, clientTask) ==
  Append(newServerData, TaskLine(ComposeJSON(clientTask)))

\* The loop of sync over the incoming tasks.  It ends with an error status
\* as soon as a merge fails; else with the new server lines, the lines to
\* return to the client and the UUIDs merged.
RECURSIVE syncLoop(_, _, _, _, _, _, _, _)
syncLoop(clientData, i, serverData, branchPoint, serverSubset, alreadySeen, newServerData, newClientData) ==
  IF i > Len(clientData)
    THEN [failed |-> FALSE, status |-> "", alreadySeen |-> alreadySeen,
          newServerData |-> newServerData, newClientData |-> newClientData]
  ELSE
    LET uuid == Get(clientData[i], "uuid") IN
    IF taskContains(serverSubset, "uuid", uuid)
      THEN IF alreadyMerged(alreadySeen, uuid)
             THEN syncLoop(clientData, i + 1, serverData, branchPoint, serverSubset,
                           alreadySeen, newServerData, newClientData)
           ELSE IF findCommonAncestorFails(serverData, branchPoint, uuid)
             THEN [failed |-> TRUE, status |-> AncestorNotFound(uuid),
                   alreadySeen |-> alreadySeen \cup {uuid},
                   newServerData |-> newServerData, newClientData |-> newClientData]
           ELSE
             LET commonAncestor == findCommonAncestor(serverData, branchPoint, uuid)
                 clientMods     == getClientMods(clientData, uuid)
                 serverMods     == getServerMods(serverData, uuid, commonAncestor)
                 combined       == mergeSort(clientMods, serverMods,
                                             NewTask(At(serverData, commonAncestor)))
                 combinedJSON   == TaskLine(ComposeJSON(combined))
             IN  IF getServerModsFails(serverData, uuid, commonAncestor)
                   THEN [failed |-> TRUE, status |-> "parsing json",
                         alreadySeen |-> alreadySeen \cup {uuid},
                         newServerData |-> newServerData,
                         newClientData |-> newClientData]
                 ELSE syncLoop(clientData, i + 1, serverData, branchPoint, serverSubset,
                               alreadySeen \cup {uuid},
                               Append(newServerData, combinedJSON),
                               Append(newClientData, combinedJSON))
    ELSE syncLoop(clientData, i + 1, serverData, branchPoint, serverSubset,
                  alreadySeen, storeTask(newServerData, clientData[i]), newClientData)

\* Faulty variant: the error of extractSubset is dropped.
subsetFailureIgnored(branchPoint) ==
  [failed |-> FALSE, status |-> "", branchPoint |-> branchPoint,
   serverSubset |-> <<>>, alreadySeen |-> {},
   newServerData |-> <<>>, newClientData |-> <<>>]

\* The error of extractSubset ends sync with a 500 response.
subsetFailure(branchPoint) ==
  [failed |-> TRUE, status |-> "parsing json", branchPoint |-> branchPoint,
   serverSubset |-> <<>>, alreadySeen |-> {},
   newServerData |-> <<>>, newClientData |-> <<>>]

\* Faulty variant: an error met in the loop over the tasks of the client
\* does not end the sync, the lines accepted before it are kept.
syncMergeKeepsAccepted(payload, serverData) ==
  LET client      == getClientData(payload)
      branchPoint == findBranchPoint(serverData, client.tx)
  IN  IF branchPoint = -1
        THEN [failed |-> TRUE, status |-> BranchPointNotFound, branchPoint |-> branchPoint,
              serverSubset |-> <<>>, alreadySeen |-> {},
              newServerData |-> <<>>, newClientData |-> <<>>]
      ELSE IF extractSubsetFails(serverData, branchPoint)
        THEN subsetFailure(branchPoint)
      ELSE
        LET serverSubset == extractSubset(serverData, branchPoint)
            loop == syncLoop(client.tasks, 1, serverData, branchPoint, serverSubset,
                             {}, <<>>, <<>>)
        IN  [failed |-> FALSE, status |-> loop.status, branchPoint |-> branchPoint,
             serverSubset |-> serverSubset, alreadySeen |-> loop.alreadySeen,
             newServerData |-> loop.newServerData, newClientData |-> loop.newClientData]

\* sync up to the choice of the sync key (server.go 137-213).
syncMerge(payload, serverData) ==
  LET client      == getClientData(payload)
      branchPoint == findBranchPoint(serverData, client.tx)
  IN  IF branchPoint = -1
        THEN [failed |-> TRUE, status |-> BranchPointNotFound, branchPoint |-> branchPoint,
              serverSubset |-> <<>>, alreadySeen |-> {},
              newServerData |-> <<>>, newClientData |-> <<>>]
      ELSE IF extractSubsetFails(serverData, branchPoint)
        THEN subsetFailure(branchPoint)
      ELSE
        LET serverSubset == extractSubset(serverData, branchPoint)
            loop == syncLoop(client.tasks, 1, serverData, branchPoint, serverSubset,
                             {}, <<>>, <<>>)
        IN  [failed |-> loop.failed, status |-> loop.status, branchPoint |-> branchPoint,
             serverSubset |-> serverSubset, alreadySeen |-> loop.alreadySeen,
             newServerData |-> loop.newServerData, newClientData |-> loop.newClientData]

\* Faulty variant: the new sync key is put in front of the new lines.
withSyncKeyFirst(newServerData, newSyncKey) ==
  <<KeyLine(newSyncKey)>> \o newServerData

\* newServerData = append(newServerData, newSyncKey + "\n")
withSyncKey(newServerData, newSyncKey) ==
  Append(newServerData, KeyLine(newSyncKey))

\* Faulty variant: the oldest line of the log that is not a task.
firstSyncKey(serverData) ==
  LET keys == {i \in DOMAIN serverData : ~IsTaskLine(serverData[i])}
  IN  IF keys = {} THEN "" ELSE serverData[Min(keys)].key

\* The most recent line of the log that is not a task, "" when there is none.
lastSyncKey(serverData) ==
  LET keys == {i \in DOMAIN serverData : ~IsTaskLine(serverData[i])}
  IN  IF keys = {} THEN "" ELSE serverData[Max(keys)].key

\* Faulty variant: the merged lines are put in front of the lines of the
\* subset.
generatePayloadMergedFirst(subset, additions, key) ==
  additions \o [i \in DOMAIN subset |-> TaskLine(ComposeJSON(subset[i]))] \o <<KeyLine(key)>>

generatePayload(subset, additions, key) ==
  [i \in DOMAIN subset |-> TaskLine(ComposeJSON(subset[i]))] \o additions \o <<KeyLine(key)>>

getResponsePayload(serverSubset, newClientData, newSyncKey) ==
  IF Len(serverSubset) > 0 \/ Len(newClientData) > 0
    THEN generatePayload(serverSubset, newClientData, newSyncKey)
  ELSE <<KeyLine(newSyncKey)>>

\* Faulty variant: the lines of the subset do not count as a change.
syncResponseNoSubset(serverSubset, newClientData, newServerData, newSyncKey) ==
  [code    |-> IF Len(newClientData) > 0 \/ Len(newServerData) > 0 THEN "200" ELSE "201",
   status  |-> IF Len(newClientData) > 0 \/ Len(newServerData) > 0
                 THEN StatusOk ELSE StatusNoChange,
   payload |-> getResponsePayload(serverSubset, newClientData, newSyncKey)]

\* The message sync returns when nothing failed (server.go 238-255).
syncResponse(serverSubset, newClientData, newServerData, newSyncKey) ==
  [code    |-> IF Len(serverSubset) > 0 \/ Len(newClientData) > 0 \/ Len(newServerData) > 0
                 THEN "200" ELSE "201",
   status  |-> IF Len(serverSubset) > 0 \/ Len(newClientData) > 0 \/ Len(newServerData) > 0
                 THEN StatusOk ELSE StatusNoChange,
   payload |-> getResponsePayload(serverSubset, newClientData, newSyncKey)]

\* The log a sync leaves when Append does not fail: the new server lines and
\* the new sync key at the end, nothing when the sync fails or has no line.
applySync(serverData, payload, newSyncKey) ==
  LET m == syncMerge(payload, serverData)
  IN  IF m.failed \/ Len(m.newServerData) = 0 THEN serverData
      ELSE serverData \o m.newServerData \o <<KeyLine(newSyncKey)>>

(***************************************************************************)
(* The requests the clients send                                           *)
(***************************************************************************)

\* The task every client starts from, and the snapshots clients send of it.
Seed ==
  [uuid |-> "u1", modified |-> FormatDate(1), project |-> "home"]

TagA ==
  [uuid |-> "u1", modified |-> FormatDate(2), project |-> "home", tags |-> <<"A">>]

TagB ==
  [uuid |-> "u1", modified |-> FormatDate(2), project |-> "home", tags |-> <<"B">>]

Due ==
  [uuid |-> "u1", modified |-> FormatDate(3), project |-> "home", tags |-> <<"C">>,
   due |-> FormatDate(4)]

Note ==
  [uuid |-> "u1", modified |-> FormatDate(2), project |-> "home",
   annotations |-> {[entry |-> FormatDate(2), description |-> "hi"]}]

Other ==
  [uuid |-> "u2", entry |-> FormatDate(1), description |-> "other"]

\* A task line NewTask rejects: its entry is no date.
Broken ==
  [uuid |-> "u3", entry |-> "yesterday", description |-> "broken"]

TaskLists ==
  {<<>>, <<TagA>>, <<TagB>>, <<Due>>, <<Note>>, <<Other>>,
   <<TagA, Due>>, <<Other, TagA>>, <<Other, Other>>}

\* The sync keys a client may report that the log may hold: none, or any
\* key the server has announced so far.
ClientKeys(issued) == {""} \cup {NewUUID(n) : n \in 1 .. issued}

\* The keys no log holds: the nil UUID and a key the server never issued.
ForeignKeys == {NilUUID, UnknownUUID}

Payload(tx, tasks) ==
  (IF tx = "" THEN <<>> ELSE <<KeyLine(tx)>>) \o [i \in DOMAIN tasks |-> TaskLine(tasks[i])]

Payloads(issued) ==
  {Payload(tx, tasks) : tx \in ClientKeys(issued), tasks \in TaskLists}
    \cup {Payload(tx, tasks) : tx \in ForeignKeys, tasks \in {<<>>, <<Other>>}}

\* The requests of two clients that work on the same generation.
RacingPayloads(issued) ==
  {Payload(tx, tasks) : tx \in {NewUUID(n) : n \in 1 .. issued},
                        tasks \in {<<>>, <<TagA>>, <<Due>>, <<Other>>}}

(***************************************************************************)
(* The server: workers that run Process on the log of one user             *)
(***************************************************************************)

VARIABLES
  inodes,    \* the content of the files of the user directory, by inode
  txData,    \* the inode tx.data names, NoFile when it does not exist
  txTemp,    \* the inode tx.tmp.data names
  nextKey,   \* how many sync keys have been minted, plus one
  started,   \* requests taken so far
  pc,        \* where each worker is in Process
  req,       \* the payload of the request of each worker
  sdata,     \* serverData, as ra.Read returned it
  work,      \* the result of the merge of each worker
  batch,     \* newServerData, as handed to ra.Append
  widx,      \* lines of the batch written so far
  src,       \* the inode source.copy reads from
  fd,        \* the inode of the file Append (or source.copy) writes to
  resp,      \* the response message
  pred,      \* the request that completed last before this one was taken
  lastDone   \* the request that completed last: what it sent, read and got

\* The state of the sync path.
syncVars == <<inodes, txData, txTemp, nextKey, started, pc, req, sdata, work,
              batch, widx, src, fd, resp, pred, lastDone>>

VARIABLES
  wire,      \* what the transport still holds for the Reads of each worker
  msg,       \* the request message of each worker, as NewMessage parsed it
  out,       \* the Writes the client of each worker has received
  writable,  \* how many more Writes the client of each worker accepts
  closed     \* how many times each worker has closed its connection

\* The state of the connection of each worker.
connVars == <<wire, msg, out, writable, closed>>

VARIABLES
  listener,    \* "open" or "closed"
  backlog,     \* clients that wait at the listener to be accepted
  arrived,     \* clients that have connected so far
  acceptErrs,  \* failures of Accept while the listener was open, so far
  servePc,     \* where the accept loop is: "accept", "add", "acquire",
               \* "spawn" or "exited"
  conn,        \* what the last Accept returned: "none", "conn" or "nil"
  accepted,    \* connections Accept has returned so far
  concurrency, \* the number of values in the channel `concurrency`
  wg,          \* the counter of the WaitGroup
  quit,        \* the number of values in the channel `quit`
  spawned,     \* handler goroutines created that have not called the handler yet
  running,     \* goroutines inside s.handler(conn)
  returned,    \* goroutines whose handler has returned, their slot not yet given back
  released,    \* goroutines that gave their slot back and have not called wg.Done yet
  closePc,     \* where Close is: "idle", "notify", "closeListener", "wait"
               \* or "returned"
  maxConcurrency \* the capacity of the channel `concurrency`

\* The state of the TLS server.
serveVars == <<listener, backlog, arrived, acceptErrs, servePc, conn, accepted,
               concurrency, wg, quit, spawned, running, returned, released, closePc,
               maxConcurrency>>

\* The codec under test: the input of a call and what it returned.
VARIABLES input, output

codecVars == <<input, output>>

\* The repository: the directories below its base directory, the
\* organizations it has loaded and the outcome of the last call.
VARIABLES dirs, orgs, outcome

repoVars == <<dirs, orgs, outcome>>

vars == <<syncVars, connVars, serveVars, codecVars, repoVars>>

Workers == {1, 2}

\* The one worker of a server that takes a request at a time.
SoleWorker == {1}

NoFile == 0

NoResp == [code |-> "", status |-> "", payload |-> <<>>]

NoWork ==
  [failed |-> FALSE, status |-> "", branchPoint |-> 0, serverSubset |-> <<>>,
   alreadySeen |-> {}, newServerData |-> <<>>, newClientData |-> <<>>]

\* No request has completed yet.
NoDone == [request |-> <<>>, serverData |-> <<>>, response |-> NoResp]

\* The lines of tx.data (none when the file does not exist).
DataLines == IF txData = NoFile THEN <<>> ELSE inodes[txData]

\* The sync key a response announces: its last payload line.
announcedKey(m) ==
  IF m.payload = <<>> THEN "" ELSE m.payload[Len(m.payload)].key

\* io.Copy into a file opened by os.Create: the lines of `from` are written
\* from offset 0, over what the file holds by then.
Overlay(from, onto) ==
  [i \in 1 .. Max({Len(from), Len(onto)}) |-> IF i <= Len(from) THEN from[i] ELSE onto[i]]

InitLogs == {<<>>, <<TaskLine(Seed), KeyLine(NewUUID(1))>>}

\* No message has been received.
NoMsg == [header |-> <<>>, payload |-> <<>>]

\* The header of a sync request of a known user.
SyncHeader ==
  [type |-> "sync", org |-> "Public", user |-> "noe", key |-> "secret", protocol |-> "v1"]

\* The length of a message in bytes, taken as the number of its lines: the
\* header entries, the empty line and the lines of the payload.
MessageLen(m) == Cardinality(DOMAIN m.header) + 1 + Len(m.payload)

\* The header entries NewResponseMessage and sync put in a response.
ResponseHeader(m) == [type |-> "response", code |-> m.code, status |-> m.status]

\* Serialize, as the two parts replyMessage writes: the four bytes of the
\* size, then the message.
Serialize(m) ==
  <<[part |-> "size",
     size |-> MessageLen([header |-> ResponseHeader(m), payload |-> m.payload]) + 4],
    [part |-> "body", header |-> ResponseHeader(m), payload |-> m.payload]>>

\* Faulty variant: the frame is written twice.
replyMessageTwice(m, canWrite) == Serialize(m) \o Serialize(m)

\* replyMessage: the Writes the client receives when it accepts `canWrite`
\* more of them; the first Write that fails ends replyMessage.
replyMessage(m, canWrite) ==
  IF canWrite >= 2 THEN Serialize(m)
  ELSE IF canWrite = 1 THEN <<Serialize(m)[1]>>
  ELSE <<>>

\* Faulty variant: the connection is closed by the handler and once more.
closeTwice(n) == n + 2

\* defer client.Close(): the closes of the connection after Process returns.
closeOnReturn(n) == n + 1

RequestLimitInBytes == 1048576

\* The connections ProcessSpec serves.
MaxConnections == 1

\* A line of zero bytes: it does not start with "{" and uuid.Parse rejects it.
ZeroLine == KeyLine(NotAUUID)

HeaderNames == <<"type", "org", "user", "key", "protocol">>

\* Message.String of a request, cut in units: one per header entry, the
\* separator, one per line of the payload.
Body(m) ==
  [i \in DOMAIN HeaderNames |->
     [unit |-> "header", name |-> HeaderNames[i], value |-> m.header[HeaderNames[i]]]]
    \o <<[unit |-> "sep"]>>
    \o [i \in DOMAIN m.payload |-> [unit |-> "line", line |-> m.payload[i]]]

\* The frame of a request: the size it declares and its body.
Frame(m) == [size |-> Len(Body(m)) + 4, body |-> Body(m)]

\* A frame that declares more than the limit.
Oversized(m) == [size |-> RequestLimitInBytes + 1, body |-> Body(m)]

\* A frame that declares less than the four bytes of its own size field.
Undersized(size) == [size |-> size, body |-> <<>>]

\* buffer = make([]byte, messageSize-4) after one client.Read(buffer) that
\* returned the first n units: the rest of the buffer keeps its zero bytes.
readOnce(frame, n) ==
  [i \in 1 .. (frame.size - 4) |-> IF i <= n THEN frame.body[i] ELSE [unit |-> "zero"]]

SeparatorNotFound == "Message separator not found"

\* NewMessage: the raw body is split at SEP; without it the parse fails.
\* The zero bytes that follow the last byte read make one more line.
NewMessage(raw) ==
  LET seps    == {i \in DOMAIN raw : raw[i].unit = "sep"}
      s       == Min(seps)
      heads   == SubSeq(raw, 1, s - 1)
      rest    == SubSeq(raw, s + 1, Len(raw))
      lines   == SelectSeq(rest, LAMBDA u : u.unit = "line")
      names   == {heads[i].name : i \in DOMAIN heads}
  IN  IF seps = {}
        THEN [failed |-> TRUE, error |-> SeparatorNotFound, header |-> <<>>, payload |-> <<>>]
        ELSE [failed  |-> FALSE,
              error   |-> "",
              header  |-> [n \in names |->
                             heads[Max({i \in DOMAIN heads : heads[i].name = n})].value],
              payload |-> [i \in DOMAIN lines |-> lines[i].line]
                            \o (IF \E i \in DOMAIN rest : rest[i].unit = "zero"
                                  THEN <<ZeroLine>> ELSE <<>>)]

\* msg.Header[name]: the empty string for a missing entry.
HeaderOf(m, name) == IF name \in DOMAIN m.header THEN m.header[name] ELSE ""

\* Authenticate, for the one user of the one organization of the
\* repository: the AuthenticationError, whose Error() is its Msg.
Authenticate(orgName, userName, key) ==
  IF orgName # SyncHeader.org THEN [failed |-> TRUE, code |-> "400", msg |-> "Invalid org"]
  ELSE IF userName = SyncHeader.user /\ key = SyncHeader.key
    THEN [failed |-> FALSE, code |-> "", msg |-> ""]
  ELSE [failed |-> TRUE, code |-> "401", msg |-> "Invalid username or key"]

\* Faulty variant: the protocol version is not verified.
isValidAnyProtocol(m) ==
  Authenticate(HeaderOf(m, "org"), HeaderOf(m, "user"), HeaderOf(m, "key")).msg

\* isValid: err.Error(), or "" for a valid message.
isValid(m) ==
  LET err == Authenticate(HeaderOf(m, "org"), HeaderOf(m, "user"), HeaderOf(m, "key"))
  IN  IF err.failed THEN err.msg
      ELSE IF HeaderOf(m, "protocol") # "v1" THEN "protocol not supported"
      ELSE ""

\* The payloads and the headers of the frames the clients send.
FramePayloads(issued) ==
  {Payload(tx, tasks) : tx \in ClientKeys(issued), tasks \in {<<>>, <<TagA>>, <<Other, TagA>>}}
    \cup {Payload(UnknownUUID, <<>>)}

BadHeaders ==
  {[SyncHeader EXCEPT !.key = "stolen"],
   [SyncHeader EXCEPT !.org = "Private"],
   [SyncHeader EXCEPT !.protocol = "v2"],
   [SyncHeader EXCEPT !.type = "statistics"]}

Frames(issued) ==
  {Frame([header |-> SyncHeader, payload |-> p]) : p \in FramePayloads(issued)}
    \cup {Frame([header |-> h, payload |-> <<>>]) : h \in BadHeaders}
    \cup {Oversized([header |-> SyncHeader, payload |-> <<>>])}
    \cup {Undersized(size) : size \in 0 .. 3}

NoFrame == [size |-> 0, body |-> <<>>]

\* The pool size (queue.size), the clients that connect altogether and the
\* failures of Accept while the listener is open.
QueueSize == 2

MaxClients == 4

MaxAcceptErrors == 1

\* The state newTLSServer and the repository leave: the log of the user is
\* one of `logs` (no tx.data for the empty one), tx.tmp.data is one of
\* `temps` (<<>> for no file, <<lines>> for a file with these lines), the
\* channel of the pool has one of the capacities `sizes`.
InitServer(logs, temps, sizes) ==
  /\ \E log \in logs, temp \in temps :
       /\ inodes = (IF log = <<>> THEN <<>> ELSE <<log>>) \o temp
       /\ txData = IF log = <<>> THEN NoFile ELSE 1
       /\ txTemp = IF temp = <<>> THEN NoFile
                   ELSE IF log = <<>> THEN 1 ELSE 2
       /\ nextKey = Cardinality({i \in DOMAIN log : ~IsTaskLine(log[i])}) + 1
  /\ started = 0
  /\ pc = [w \in Workers |-> "idle"]
  /\ req = [w \in Workers |-> <<>>]
  /\ sdata = [w \in Workers |-> <<>>]
  /\ work = [w \in Workers |-> NoWork]
  /\ batch = [w \in Workers |-> <<>>]
  /\ widx = [w \in Workers |-> 0]
  /\ src = [w \in Workers |-> NoFile]
  /\ fd = [w \in Workers |-> NoFile]
  /\ resp = [w \in Workers |-> NoResp]
  /\ pred = [w \in Workers |-> NoDone]
  /\ lastDone = NoDone
  /\ wire = [w \in Workers |-> NoFrame]
  /\ msg = [w \in Workers |-> NoMsg]
  /\ out = [w \in Workers |-> <<>>]
  /\ writable = [w \in Workers |-> 0]
  /\ closed = [w \in Workers |-> 0]
  /\ listener = "open"
  /\ backlog = 0
  /\ arrived = 0
  /\ acceptErrs = 0
  /\ servePc = "accept"
  /\ conn = "none"
  /\ accepted = 0
  /\ concurrency = 0
  /\ wg = 1
  /\ quit = 0
  /\ spawned = 0
  /\ running = 0
  /\ returned = 0
  /\ released = 0
  /\ closePc = "idle"
  /\ maxConcurrency \in sizes

\* The server started with the pool size of the configuration.
InitWith(logs) == InitServer(logs, {<<>>}, {QueueSize})

NoInput == [fn |-> "none"]

NoOutput == [stage |-> "none"]

\* No call of the codec is under test.
CodecIdle == input = NoInput /\ output = NoOutput

NoOutcome == [name |-> <<>>, err |-> "", made |-> {}]

\* NewRepository: the base directory holds the directory orgs, and no
\* organization is loaded.
RepoInit ==
  /\ dirs = {<<"orgs">>}
  /\ orgs = {}
  /\ outcome = NoOutcome

Init == InitWith(InitLogs) /\ CodecIdle /\ RepoInit

\* A worker is handed a connection and receives a sync request.  With
\* `alone` no other request is in progress.
Start(w, payloads, alone) ==
  /\ pc[w] \in {"idle", "done"}
  /\ alone => \A v \in Workers : pc[v] \in {"idle", "done"}
  /\ started < MaxSyncs
  /\ \E p \in payloads :
       /\ req' = [req EXCEPT ![w] = p]
       /\ msg' = [msg EXCEPT ![w] = [header |-> SyncHeader, payload |-> p]]
  /\ out' = [out EXCEPT ![w] = <<>>]
  /\ writable' = [writable EXCEPT ![w] = 2]
  /\ closed' = [closed EXCEPT ![w] = 0]
  /\ started' = started + 1
  /\ pc' = [pc EXCEPT ![w] = "read"]
  /\ sdata' = [sdata EXCEPT ![w] = <<>>]
  /\ work' = [work EXCEPT ![w] = NoWork]
  /\ batch' = [batch EXCEPT ![w] = <<>>]
  /\ widx' = [widx EXCEPT ![w] = 0]
  /\ resp' = [resp EXCEPT ![w] = NoResp]
  /\ pred' = [pred EXCEPT ![w] = lastDone]
  /\ UNCHANGED <<inodes, txData, txTemp, nextKey, src, fd, lastDone>>
  /\ UNCHANGED <<wire, serveVars>>
  /\ UNCHANGED <<codecVars, repoVars>>

\* sync, from ra.Read to the call of ra.Append: Read opens tx.data with
\* O_CREATE and returns its lines; the merge follows; a new sync key is
\* minted when there are new server lines.
ReadAndMerge(w) ==
  /\ pc[w] = "read"
  /\ LET data   == DataLines
         m      == syncMerge(req[w], data)
         key    == IF Len(m.newServerData) > 0 THEN NewUUID(nextKey) ELSE lastSyncKey(data)
         lines  == IF Len(m.newServerData) > 0
                     THEN withSyncKey(m.newServerData, key) ELSE <<>>
     IN  /\ sdata' = [sdata EXCEPT ![w] = data]
         /\ work' = [work EXCEPT ![w] = m]
         /\ IF txData = NoFile
              THEN /\ inodes' = Append(inodes, <<>>)
                   /\ txData' = Len(inodes) + 1
              ELSE UNCHANGED <<inodes, txData>>
         /\ IF m.failed
              THEN /\ resp' = [resp EXCEPT ![w] = NewResponseMessage("500", m.status)]
                   /\ pc' = [pc EXCEPT ![w] = "reply"]
                   /\ UNCHANGED <<batch, nextKey>>
            ELSE IF Len(m.newServerData) > 0
              THEN /\ batch' = [batch EXCEPT ![w] = lines]
                   /\ nextKey' = nextKey + 1
                   /\ resp' = [resp EXCEPT ![w] =
                        syncResponse(m.serverSubset, m.newClientData, lines, key)]
                   /\ pc' = [pc EXCEPT ![w] = "copy"]
            ELSE /\ resp' = [resp EXCEPT ![w] =
                      syncResponse(m.serverSubset, m.newClientData, <<>>, key)]
                 /\ pc' = [pc EXCEPT ![w] = "reply"]
                 /\ UNCHANGED <<batch, nextKey>>
  /\ UNCHANGED <<txTemp, started, req, widx, src, fd, pred, lastDone>>
  /\ UNCHANGED <<connVars, serveVars>>
  /\ UNCHANGED <<codecVars, repoVars>>

\* Append, tx.data being there (Read created it): source.copy opens tx.data
\* and os.Create makes tx.tmp.data, or truncates the one that is there.
AppendCreate(w) ==
  /\ pc[w] = "copy"
  /\ txData # NoFile
  /\ src' = [src EXCEPT ![w] = txData]
  /\ IF txTemp = NoFile
       THEN /\ inodes' = Append(inodes, <<>>)
            /\ txTemp' = Len(inodes) + 1
            /\ fd' = [fd EXCEPT ![w] = Len(inodes) + 1]
       ELSE /\ inodes' = [inodes EXCEPT ![txTemp] = <<>>]
            /\ fd' = [fd EXCEPT ![w] = txTemp]
            /\ UNCHANGED txTemp
  /\ pc' = [pc EXCEPT ![w] = "fill"]
  /\ UNCHANGED <<txData, nextKey, started, req, sdata, work, batch, widx,
                 resp, pred, lastDone>>
  /\ UNCHANGED <<connVars, serveVars>>
  /\ UNCHANGED <<codecVars, repoVars>>

\* io.Copy(destination, source), and the two deferred Close.
AppendCopy(w) ==
  /\ pc[w] = "fill"
  /\ inodes' = [inodes EXCEPT ![fd[w]] = Overlay(inodes[src[w]], @)]
  /\ src' = [src EXCEPT ![w] = NoFile]
  /\ fd' = [fd EXCEPT ![w] = NoFile]
  /\ pc' = [pc EXCEPT ![w] = "open"]
  /\ UNCHANGED <<txData, txTemp, nextKey, started, req, sdata, work, batch,
                 widx, resp, pred, lastDone>>
  /\ UNCHANGED <<connVars, serveVars>>
  /\ UNCHANGED <<codecVars, repoVars>>

\* os.OpenFile(tx.tmp.data, O_RDWR|O_APPEND): fails when the file is gone.
AppendOpen(w) ==
  /\ pc[w] = "open"
  /\ IF txTemp = NoFile
       THEN /\ resp' = [resp EXCEPT ![w] = NewResponseMessage("500", "open tx file")]
            /\ pc' = [pc EXCEPT ![w] = "reply"]
            /\ UNCHANGED fd
       ELSE /\ fd' = [fd EXCEPT ![w] = txTemp]
            /\ pc' = [pc EXCEPT ![w] = "write"]
            /\ UNCHANGED resp
  /\ UNCHANGED <<inodes, txData, txTemp, nextKey, started, req, sdata, work,
                 batch, widx, src, pred, lastDone>>
  /\ UNCHANGED <<connVars, serveVars>>
  /\ UNCHANGED <<codecVars, repoVars>>

\* file.Write of one line of the batch, at the end of the open file.
AppendWrite(w) ==
  /\ pc[w] = "write"
  /\ widx[w] < Len(batch[w])
  /\ inodes' = [inodes EXCEPT ![fd[w]] = Append(@, batch[w][widx[w] + 1])]
  /\ widx' = [widx EXCEPT ![w] = @ + 1]
  /\ UNCHANGED <<txData, txTemp, nextKey, started, pc, req, sdata, work, batch,
                 src, fd, resp, pred, lastDone>>
  /\ UNCHANGED <<connVars, serveVars>>
  /\ UNCHANGED <<codecVars, repoVars>>

\* Append, tx.data being missing: os.OpenFile(tx.tmp.data, O_RDWR|O_CREATE)
\* makes the file or opens the one that is there as it is, at offset 0.
AppendOpenNew(w) ==
  /\ pc[w] = "copy"
  /\ txData = NoFile
  /\ IF txTemp = NoFile
       THEN /\ inodes' = Append(inodes, <<>>)
            /\ txTemp' = Len(inodes) + 1
            /\ fd' = [fd EXCEPT ![w] = Len(inodes) + 1]
       ELSE /\ fd' = [fd EXCEPT ![w] = txTemp]
            /\ UNCHANGED <<inodes, txTemp>>
  /\ pc' = [pc EXCEPT ![w] = "writeAt"]
  /\ UNCHANGED <<txData, nextKey, started, req, sdata, work, batch, widx, src,
                 resp, pred, lastDone>>
  /\ UNCHANGED <<connVars, serveVars>>
  /\ UNCHANGED <<codecVars, repoVars>>

\* file.Write of one line of the batch through a descriptor opened without
\* O_APPEND: the line goes to the offset the writes have reached, over what
\* the file holds there.
AppendWriteAt(w) ==
  /\ pc[w] = "writeAt"
  /\ widx[w] < Len(batch[w])
  /\ inodes' = [inodes EXCEPT ![fd[w]] = Overlay(SubSeq(batch[w], 1, widx[w] + 1), @)]
  /\ widx' = [widx EXCEPT ![w] = @ + 1]
  /\ UNCHANGED <<txData, txTemp, nextKey, started, pc, req, sdata, work, batch,
                 src, fd, resp, pred, lastDone>>
  /\ UNCHANGED <<connVars, serveVars>>
  /\ UNCHANGED <<codecVars, repoVars>>

\* file.Close and os.Rename(tx.tmp.data, tx.data), once every line is
\* written; Rename fails when tx.tmp.data is gone.
AppendRename(w) ==
  /\ pc[w] \in {"write", "writeAt"}
  /\ widx[w] = Len(batch[w])
  /\ IF txTemp = NoFile
       THEN /\ resp' = [resp EXCEPT ![w] = NewResponseMessage("500", "rename")]
            /\ UNCHANGED <<txData, txTemp>>
       ELSE /\ txData' = txTemp
            /\ txTemp' = NoFile
            /\ UNCHANGED resp
  /\ fd' = [fd EXCEPT ![w] = NoFile]
  /\ pc' = [pc EXCEPT ![w] = "reply"]
  /\ UNCHANGED <<inodes, nextKey, started, req, sdata, work, batch, widx, src,
                 pred, lastDone>>
  /\ UNCHANGED <<connVars, serveVars>>
  /\ UNCHANGED <<codecVars, repoVars>>

\* replyMessage and the deferred client.Close.
Reply(w, writes) ==
  /\ pc[w] = "reply"
  /\ pc' = [pc EXCEPT ![w] = "done"]
  /\ \E canWrite \in writes :
       /\ out' = [out EXCEPT ![w] = @ \o replyMessage(resp[w], canWrite)]
       /\ writable' = [writable EXCEPT ![w] = canWrite]
  /\ closed' = [closed EXCEPT ![w] = closeOnReturn(@)]
  /\ lastDone' = [request |-> req[w], serverData |-> sdata[w], response |-> resp[w]]
  /\ UNCHANGED <<inodes, txData, txTemp, nextKey, started, req, sdata, work,
                 batch, widx, src, fd, resp, pred>>
  /\ UNCHANGED <<wire, msg, serveVars>>
  /\ UNCHANGED <<codecVars, repoVars>>

\* A worker is handed a connection on which a client has sent a frame.
Connect(w) ==
  /\ pc[w] \in {"idle", "done"}
  /\ \A v \in Workers : pc[v] \in {"idle", "done"}
  /\ started < MaxConnections
  /\ \E f \in Frames(nextKey - 1) : wire' = [wire EXCEPT ![w] = f]
  /\ msg' = [msg EXCEPT ![w] = NoMsg]
  /\ req' = [req EXCEPT ![w] = <<>>]
  /\ out' = [out EXCEPT ![w] = <<>>]
  /\ writable' = [writable EXCEPT ![w] = 2]
  /\ closed' = [closed EXCEPT ![w] = 0]
  /\ started' = started + 1
  /\ pc' = [pc EXCEPT ![w] = "recvSize"]
  /\ sdata' = [sdata EXCEPT ![w] = <<>>]
  /\ work' = [work EXCEPT ![w] = NoWork]
  /\ batch' = [batch EXCEPT ![w] = <<>>]
  /\ widx' = [widx EXCEPT ![w] = 0]
  /\ resp' = [resp EXCEPT ![w] = NoResp]
  /\ pred' = [pred EXCEPT ![w] = lastDone]
  /\ UNCHANGED <<inodes, txData, txTemp, nextKey, src, fd, lastDone>>
  /\ UNCHANGED serveVars
  /\ UNCHANGED <<codecVars, repoVars>>

\* make([]byte, messageSize-4) panics: the length is negative.
makeBufferPanics(messageSize) == messageSize - 4 < 0

\* receiveMessage, the read of the size: one Read of four bytes, which fails
\* or comes short, or else gives the size, checked against the limit. With
\* a size below four make([]byte, messageSize-4) panics: the deferred
\* client.Close() of Process runs and the goroutine dies with the panic.
ReceiveSize(w) ==
  /\ pc[w] = "recvSize"
  /\ \E got \in {"size", "short", "error"} :
       IF got # "size"
         THEN /\ resp' = [resp EXCEPT ![w] = NewResponseMessage("500", "reading size")]
              /\ pc' = [pc EXCEPT ![w] = "reply"]
              /\ UNCHANGED closed
         ELSE IF wire[w].size > RequestLimitInBytes
           THEN /\ resp' = [resp EXCEPT ![w] =
                              NewResponseMessage("500", "message size limit exceeded")]
                /\ pc' = [pc EXCEPT ![w] = "reply"]
                /\ UNCHANGED closed
         ELSE IF makeBufferPanics(wire[w].size)
           THEN /\ pc' = [pc EXCEPT ![w] = "panicked"]
                /\ closed' = [closed EXCEPT ![w] = closeOnReturn(@)]
                /\ UNCHANGED resp
           ELSE /\ pc' = [pc EXCEPT ![w] = "recvBody"]
                /\ UNCHANGED <<resp, closed>>
  /\ UNCHANGED <<inodes, txData, txTemp, nextKey, started, req, sdata, work,
                 batch, widx, src, fd, pred, lastDone>>
  /\ UNCHANGED <<wire, msg, out, writable, serveVars>>
  /\ UNCHANGED <<codecVars, repoVars>>

\* receiveMessage, the read of the body: one Read, which fails (n = 0) or
\* returns the first n units of the body, and NewMessage of the buffer.
ReceiveBody(w) ==
  /\ pc[w] = "recvBody"
  /\ \E n \in 0 .. Len(wire[w].body) :
       LET parsed == NewMessage(readOnce(wire[w], n))
       IN  IF n = 0
             THEN /\ resp' = [resp EXCEPT ![w] = NewResponseMessage("500", "reading client")]
                  /\ pc' = [pc EXCEPT ![w] = "reply"]
                  /\ UNCHANGED msg
             ELSE IF parsed.failed
               THEN /\ resp' = [resp EXCEPT ![w] = NewResponseMessage("500", parsed.error)]
                    /\ pc' = [pc EXCEPT ![w] = "reply"]
                    /\ UNCHANGED msg
               ELSE /\ msg' = [msg EXCEPT ![w] =
                                 [header |-> parsed.header, payload |-> parsed.payload]]
                    /\ pc' = [pc EXCEPT ![w] = "valid"]
                    /\ UNCHANGED resp
  /\ UNCHANGED <<inodes, txData, txTemp, nextKey, started, req, sdata, work,
                 batch, widx, src, fd, pred, lastDone>>
  /\ UNCHANGED <<wire, out, writable, closed, serveVars>>
  /\ UNCHANGED <<codecVars, repoVars>>

\* Process after receiveMessage: isValid, then processMessage, which calls
\* sync for a message of type "sync".
Validate(w) ==
  /\ pc[w] = "valid"
  /\ IF isValid(msg[w]) # ""
       THEN /\ resp' = [resp EXCEPT ![w] = NewResponseMessage("400", isValid(msg[w]))]
            /\ pc' = [pc EXCEPT ![w] = "reply"]
            /\ UNCHANGED req
       ELSE IF HeaderOf(msg[w], "type") # "sync"
         THEN /\ resp' = [resp EXCEPT ![w] =
                            NewResponseMessage("500", "unknown message type")]
              /\ pc' = [pc EXCEPT ![w] = "reply"]
              /\ UNCHANGED req
         ELSE /\ req' = [req EXCEPT ![w] = msg[w].payload]
              /\ pc' = [pc EXCEPT ![w] = "read"]
              /\ UNCHANGED resp
  /\ UNCHANGED <<inodes, txData, txTemp, nextKey, started, sdata, work,
                 batch, widx, src, fd, pred, lastDone>>
  /\ UNCHANGED <<connVars, serveVars>>
  /\ UNCHANGED <<codecVars, repoVars>>

\* Requests are served one at a time.
Next ==
  \E w \in SoleWorker :
    \/ Start(w, Payloads(nextKey - 1), TRUE)
    \/ ReadAndMerge(w)
    \/ AppendCreate(w)
    \/ AppendCopy(w)
    \/ AppendOpen(w)
    \/ AppendWrite(w)
    \/ AppendRename(w)
    \/ Reply(w, {2})

Spec == Init /\ [][Next]_vars

\* Two workers serve the requests of two clients of the same user at once.
RaceNext ==
  \E w \in Workers :
    \/ Start(w, RacingPayloads(nextKey - 1), FALSE)
    \/ ReadAndMerge(w)
    \/ AppendCreate(w)
    \/ AppendCopy(w)
    \/ AppendOpen(w)
    \/ AppendWrite(w)
    \/ AppendRename(w)
    \/ Reply(w, {2})

RaceSpec == Init /\ [][RaceNext]_vars

\* The logs a user may have on disk from earlier syncs, among them logs
\* with a line that does not parse.
StoredLogs ==
  {<<TaskLine(Broken), TaskLine(Seed), KeyLine(NewUUID(1))>>,
   <<TaskLine(Seed), KeyLine(NewUUID(1)), TaskLine(Broken), KeyLine(NewUUID(2))>>,
   <<TaskLine(Seed), TaskLine(Broken), KeyLine(NewUUID(1)), TaskLine(TagA), KeyLine(NewUUID(2))>>,
   <<TaskLine(Seed), TaskLine(TagA), KeyLine(NewUUID(1)), TaskLine(Due), KeyLine(NewUUID(2))>>,
   <<TaskLine(Seed), KeyLine(NewUUID(1)), TaskLine(Other), KeyLine(NewUUID(2))>>}

\* The syncs served on a stored log.
MaxStoredSyncs == 1

\* The requests sent against a stored log, among them payloads with a task
\* line that does not parse and payloads with two UUID lines.
StoredPayloads(issued) ==
  {Payload(tx, tasks) : tx \in ClientKeys(issued),
                        tasks \in {<<>>, <<Other>>, <<TagB>>, <<Broken>>, <<Broken, Other>>,
                                   <<TagB, Broken>>, <<Other, TagB>>, <<TagB, Other>>}}
    \cup {<<KeyLine(NewUUID(a)), KeyLine(NewUUID(b))>> \o Payload("", tasks) :
            a \in 1 .. issued, b \in 1 .. issued, tasks \in {<<>>, <<Other>>}}

StoredInit == InitWith(StoredLogs) /\ CodecIdle /\ RepoInit

\* Requests are served one at a time on a stored log.
StoredNext ==
  \E w \in SoleWorker :
    \/ started < MaxStoredSyncs /\ Start(w, StoredPayloads(nextKey - 1), TRUE)
    \/ ReadAndMerge(w)
    \/ AppendCreate(w)
    \/ AppendCopy(w)
    \/ AppendOpen(w)
    \/ AppendWrite(w)
    \/ AppendRename(w)
    \/ Reply(w, {2})

StoredSpec == StoredInit /\ [][StoredNext]_vars

\* One worker serves connections, from the frame on the wire to the close.
ProcessNext ==
  \E w \in SoleWorker :
    \/ Connect(w)
    \/ ReceiveSize(w)
    \/ ReceiveBody(w)
    \/ Validate(w)
    \/ ReadAndMerge(w)
    \/ AppendCreate(w)
    \/ AppendCopy(w)
    \/ AppendOpen(w)
    \/ AppendWrite(w)
    \/ AppendRename(w)
    \/ Reply(w, 0 .. 2)

ProcessSpec == Init /\ [][ProcessNext]_vars

(***************************************************************************)
(* The TLS server: the accept loop, the handler goroutines and Close       *)
(***************************************************************************)

(***************************************************************************)
(* DefaultReadAppender.Append called on a user directory as it is found    *)
(***************************************************************************)

\* What an interrupted append left in tx.tmp.data: nothing, one line, or the
\* task lines of a batch whose key was not written.
Leftovers ==
  {<<>>,
   <<<<TaskLine(TagB)>>>>,
   <<<<TaskLine(TagB), TaskLine(Due), TaskLine(Note)>>>>}

\* The calls of Append.
MaxAppends == 2

\* The lines handed to Append.
AppendBatches(key) ==
  {withSyncKey(<<TaskLine(Other)>>, key), withSyncKey(<<TaskLine(TagA), TaskLine(Other)>>, key)}

AppendInit == InitServer(InitLogs, Leftovers, {QueueSize}) /\ CodecIdle /\ RepoInit

\* ra.Append(user, data) is called.
CallAppend(w) ==
  /\ pc[w] \in {"idle", "done"}
  /\ started < MaxAppends
  /\ started' = started + 1
  /\ \E data \in AppendBatches(NewUUID(nextKey)) : batch' = [batch EXCEPT ![w] = data]
  /\ nextKey' = nextKey + 1
  /\ widx' = [widx EXCEPT ![w] = 0]
  /\ resp' = [resp EXCEPT ![w] = NoResp]
  /\ pc' = [pc EXCEPT ![w] = "copy"]
  /\ UNCHANGED <<inodes, txData, txTemp, req, sdata, work, src, fd, pred, lastDone>>
  /\ UNCHANGED <<connVars, serveVars>>
  /\ UNCHANGED <<codecVars, repoVars>>

\* Append returns, nil or the error it met.
AppendReturns(w) ==
  /\ pc[w] = "reply"
  /\ pc' = [pc EXCEPT ![w] = "done"]
  /\ UNCHANGED <<inodes, txData, txTemp, nextKey, started, req, sdata, work,
                 batch, widx, src, fd, resp, pred, lastDone>>
  /\ UNCHANGED <<connVars, serveVars>>
  /\ UNCHANGED <<codecVars, repoVars>>

AppendNext ==
  \E w \in SoleWorker :
    \/ CallAppend(w)
    \/ AppendOpenNew(w)
    \/ AppendCreate(w)
    \/ AppendCopy(w)
    \/ AppendOpen(w)
    \/ AppendWrite(w)
    \/ AppendWriteAt(w)
    \/ AppendRename(w)
    \/ AppendReturns(w)

AppendSpec == AppendInit /\ [][AppendNext]_vars

\* The handler goroutines that hold a slot of the pool.
InFlight == spawned + running + returned

\* Faulty variant: the send on `concurrency` never blocks.
alwaysSlot(inChannel) == TRUE

\* Faulty variant: the channel takes one value more than the pool size.
slotOrOneMore(inChannel) == inChannel <= maxConcurrency

\* concurrency <- 1 can proceed: the channel, of capacity maxConcurrency, is
\* not full.
hasSlot(inChannel) == inChannel < maxConcurrency

\* Faulty variant: Close does not wait.
noWait(counter) == TRUE

\* s.wg.Wait() can return.
wgZero(counter) == counter = 0

\* A client connects: its connection waits at the listener.
ClientConnects ==
  /\ listener = "open"
  /\ arrived < MaxClients
  /\ arrived' = arrived + 1
  /\ backlog' = backlog + 1
  /\ UNCHANGED <<listener, acceptErrs, servePc, conn, accepted, concurrency, wg,
                 quit, spawned, running, returned, released, closePc>>
  /\ UNCHANGED <<syncVars, connVars, maxConcurrency>>
  /\ UNCHANGED <<codecVars, repoVars>>

\* s.listener.Accept() returns a connection.
Accept ==
  /\ servePc = "accept"
  /\ listener = "open"
  /\ backlog > 0
  /\ backlog' = backlog - 1
  /\ conn' = "conn"
  /\ accepted' = accepted + 1
  /\ servePc' = "add"
  /\ UNCHANGED <<listener, arrived, acceptErrs, concurrency, wg, quit, spawned,
                 running, returned, released, closePc>>
  /\ UNCHANGED <<syncVars, connVars, maxConcurrency>>
  /\ UNCHANGED <<codecVars, repoVars>>

\* s.listener.Accept() returns an error, the listener being closed or not:
\* with a value in `quit` serve returns (and its deferred wg.Done runs),
\* otherwise the error is logged and the loop goes on with a nil connection.
AcceptFails ==
  /\ servePc = "accept"
  /\ \/ listener = "closed" /\ UNCHANGED acceptErrs
     \/ /\ listener = "open"
        /\ acceptErrs < MaxAcceptErrors
        /\ acceptErrs' = acceptErrs + 1
  /\ IF quit > 0
       THEN /\ quit' = quit - 1
            /\ servePc' = "exited"
            /\ wg' = wg - 1
            /\ UNCHANGED conn
       ELSE /\ conn' = "nil"
            /\ servePc' = "add"
            /\ UNCHANGED <<quit, wg>>
  /\ UNCHANGED <<listener, backlog, arrived, accepted, concurrency, spawned,
                 running, returned, released, closePc>>
  /\ UNCHANGED <<syncVars, connVars, maxConcurrency>>
  /\ UNCHANGED <<codecVars, repoVars>>

\* s.wg.Add(1)
WgAdd ==
  /\ servePc = "add"
  /\ wg' = wg + 1
  /\ servePc' = "acquire"
  /\ UNCHANGED <<listener, backlog, arrived, acceptErrs, conn, accepted,
                 concurrency, quit, spawned, running, returned, released, closePc>>
  /\ UNCHANGED <<syncVars, connVars, maxConcurrency>>
  /\ UNCHANGED <<codecVars, repoVars>>

\* concurrency <- 1
Acquire ==
  /\ servePc = "acquire"
  /\ hasSlot(concurrency)
  /\ concurrency' = concurrency + 1
  /\ servePc' = "spawn"
  /\ UNCHANGED <<listener, backlog, arrived, acceptErrs, conn, accepted, wg,
                 quit, spawned, running, returned, released, closePc>>
  /\ UNCHANGED <<syncVars, connVars, maxConcurrency>>
  /\ UNCHANGED <<codecVars, repoVars>>

\* go func() { ... }(): the goroutine of the handler is created.
Spawn ==
  /\ servePc = "spawn"
  /\ spawned' = spawned + 1
  /\ conn' = "none"
  /\ servePc' = "accept"
  /\ UNCHANGED <<listener, backlog, arrived, acceptErrs, accepted, concurrency,
                 wg, quit, running, returned, released, closePc>>
  /\ UNCHANGED <<syncVars, connVars, maxConcurrency>>
  /\ UNCHANGED <<codecVars, repoVars>>

\* The goroutine calls s.handler(conn).
HandlerStarts ==
  /\ spawned > 0
  /\ spawned' = spawned - 1
  /\ running' = running + 1
  /\ UNCHANGED <<listener, backlog, arrived, acceptErrs, servePc, conn, accepted,
                 concurrency, wg, quit, returned, released, closePc>>
  /\ UNCHANGED <<syncVars, connVars, maxConcurrency>>
  /\ UNCHANGED <<codecVars, repoVars>>

\* s.handler(conn) returns.
HandlerReturns ==
  /\ running > 0
  /\ running' = running - 1
  /\ returned' = returned + 1
  /\ UNCHANGED <<listener, backlog, arrived, acceptErrs, servePc, conn, accepted,
                 concurrency, wg, quit, spawned, released, closePc>>
  /\ UNCHANGED <<syncVars, connVars, maxConcurrency>>
  /\ UNCHANGED <<codecVars, repoVars>>

\* The deferred function: <-concurrency
ReleaseSlot ==
  /\ returned > 0
  /\ returned' = returned - 1
  /\ concurrency' = concurrency - 1
  /\ released' = released + 1
  /\ UNCHANGED <<listener, backlog, arrived, acceptErrs, servePc, conn, accepted,
                 wg, quit, spawned, running, closePc>>
  /\ UNCHANGED <<syncVars, connVars, maxConcurrency>>
  /\ UNCHANGED <<codecVars, repoVars>>

\* The deferred function: s.wg.Done()
WgDone ==
  /\ released > 0
  /\ released' = released - 1
  /\ wg' = wg - 1
  /\ UNCHANGED <<listener, backlog, arrived, acceptErrs, servePc, conn, accepted,
                 concurrency, quit, spawned, running, returned, closePc>>
  /\ UNCHANGED <<syncVars, connVars, maxConcurrency>>
  /\ UNCHANGED <<codecVars, repoVars>>

\* Close: s.quit <- true (the channel has room for one value)
CloseNotify ==
  /\ closePc = "idle"
  /\ quit < 1
  /\ quit' = quit + 1
  /\ closePc' = "closeListener"
  /\ UNCHANGED <<listener, backlog, arrived, acceptErrs, servePc, conn, accepted,
                 concurrency, wg, spawned, running, returned, released>>
  /\ UNCHANGED <<syncVars, connVars, maxConcurrency>>
  /\ UNCHANGED <<codecVars, repoVars>>

\* Close: s.listener.Close(); the connections that wait are dropped.
CloseListener ==
  /\ closePc = "closeListener"
  /\ listener' = "closed"
  /\ backlog' = 0
  /\ closePc' = "wait"
  /\ UNCHANGED <<arrived, acceptErrs, servePc, conn, accepted, concurrency, wg,
                 quit, spawned, running, returned, released>>
  /\ UNCHANGED <<syncVars, connVars, maxConcurrency>>
  /\ UNCHANGED <<codecVars, repoVars>>

\* Close: s.wg.Wait() returns, and so does Close.
CloseReturns ==
  /\ closePc = "wait"
  /\ wgZero(wg)
  /\ closePc' = "returned"
  /\ UNCHANGED <<listener, backlog, arrived, acceptErrs, servePc, conn, accepted,
                 concurrency, wg, quit, spawned, running, returned, released>>
  /\ UNCHANGED <<syncVars, connVars, maxConcurrency>>
  /\ UNCHANGED <<codecVars, repoVars>>

ServeNext ==
  \/ ClientConnects
  \/ Accept
  \/ AcceptFails
  \/ WgAdd
  \/ Acquire
  \/ Spawn
  \/ HandlerStarts
  \/ HandlerReturns
  \/ ReleaseSlot
  \/ WgDone
  \/ CloseNotify
  \/ CloseListener
  \/ CloseReturns

ServeSpec == Init /\ [][ServeNext]_vars

(***************************************************************************)
(* The codecs on their own: patch, the task JSON and the message text      *)
(***************************************************************************)

\* The text of a message is a sequence of tokens: the newline, the ": " of a
\* header entry, and words.
NL == "\n"

CS == ": "

SEP == <<NL, NL>>

\* strings.Split(raw, sep): raw is cut at every occurrence of sep, found from
\* the left and not overlapping.
RECURSIVE Split(_, _)
Split(raw, sep) ==
  LET hits == {i \in 1 .. Len(raw) - Len(sep) + 1 : SubSeq(raw, i, i + Len(sep) - 1) = sep}
  IN  IF hits = {} THEN <<raw>>
      ELSE <<SubSeq(raw, 1, Min(hits) - 1)>>
             \o Split(SubSeq(raw, Min(hits) + Len(sep), Len(raw)), sep)

\* The value of a key in a header map, a set of entries with distinct keys.
ValueOf(header, key) == (CHOOSE e \in header : e.key = key).value

\* Message.String: "key: value\n" per header entry, in the order the map is
\* iterated, then "\n" and the payload.
RECURSIVE HeaderText(_, _)
HeaderText(header, order) ==
  IF order = <<>> THEN <<>>
  ELSE Head(order) \o <<CS>> \o ValueOf(header, Head(order)) \o <<NL>>
         \o HeaderText(header, Tail(order))

MessageString(m, order) == HeaderText(m.header, order) \o <<NL>> \o m.payload

\* The orders in which a map with these keys may be iterated.
Orders(keys) ==
  {o \in [1 .. Cardinality(keys) -> keys] : \A k \in keys : \E i \in DOMAIN o : o[i] = k}

\* NewMessage on the text: Split at SEP, the second part being the payload;
\* the first part Split at "\n", every entry Split at ": " into two.
NewMessageText(raw) ==
  LET parts   == Split(raw, SEP)
      headers == Split(parts[1], <<NL>>)
      bad     == {i \in DOMAIN headers : Len(Split(headers[i], <<CS>>)) # 2}
      keyAt(i) == Split(headers[i], <<CS>>)[1]
  IN  IF Len(parts) = 1
        THEN [failed |-> TRUE, error |-> SeparatorNotFound, header |-> {}, payload |-> <<>>]
      ELSE IF bad # {}
        THEN [failed |-> TRUE, error |-> "error parsing header entry", header |-> {},
              payload |-> parts[2]]
      ELSE [failed  |-> FALSE,
            error   |-> "",
            header  |-> {[key |-> keyAt(i), value |-> Split(headers[i], <<CS>>)[2]] :
                           i \in {i \in DOMAIN headers :
                                    \A k \in DOMAIN headers : keyAt(k) = keyAt(i) => k <= i}},
            payload |-> parts[2]]

\* The header maps and the payloads of the messages under test.
HeaderMaps ==
  {{},
   {[key |-> <<"type">>, value |-> <<"sync">>]},
   {[key |-> <<"client">>, value |-> <<>>]},
   {[key |-> <<"type">>, value |-> <<"response">>], [key |-> <<"code">>, value |-> <<"200">>],
    [key |-> <<"status">>, value |-> <<"Ok">>]},
   {[key |-> <<"code">>, value |-> <<"500">>],
    [key |-> <<"status">>, value |-> <<"parsing json", CS, "unexpected end">>]},
   {[key |-> <<"status">>, value |-> <<"first", NL, "second">>]}}

PayloadTexts ==
  {<<>>, <<"key">>, <<"task", NL, "key", NL>>, <<NL, "key">>, <<"task", NL, NL, "key">>}

\* A JSON object with an attribute that is the empty string, and one with a
\* numeric attribute.
Blank ==
  [uuid |-> "u4", description |-> "", project |-> "home"]

Masked ==
  [uuid |-> "u5", description |-> "child", imask |-> 2]

JSONLines == {Seed, TagA, TagB, Due, Note, Other, Blank, Masked}

ParsedTasks == {parseJSON(j) : j \in {Seed, TagA, TagB, Due, Note, Other}}

CodecInputs ==
  {[fn |-> "patch", base |-> b, from |-> f, to |-> t] :
     b \in ParsedTasks, f \in ParsedTasks, t \in ParsedTasks}
    \cup {[fn |-> "json", json |-> j] : j \in JSONLines}
    \cup {[fn |-> "message", header |-> h, payload |-> p] :
            h \in HeaderMaps, p \in PayloadTexts}

CodecInit ==
  /\ InitWith({<<>>})
  /\ input \in CodecInputs
  /\ output = NoOutput
  /\ RepoInit

\* patch(base, from, to)
ApplyPatch ==
  /\ input.fn = "patch"
  /\ output.stage = "none"
  /\ output' = [stage |-> "patched", task |-> patch(input.base, input.from, input.to)]
  /\ UNCHANGED <<input, syncVars, connVars, serveVars, repoVars>>

\* NewTask of a JSON line, and ComposeJSON of the task.
ComposeTask ==
  /\ input.fn = "json"
  /\ output.stage = "none"
  /\ output' = [stage |-> "composed", task |-> parseJSON(input.json),
                json |-> ComposeJSON(parseJSON(input.json))]
  /\ UNCHANGED <<input, syncVars, connVars, serveVars, repoVars>>

\* NewTask of the JSON that ComposeJSON returned.
ReparseTask ==
  /\ output.stage = "composed"
  /\ output' = [stage |-> "reparsed", task |-> output.task, json |-> output.json,
                failed |-> parseJSONFails(output.json),
                again |-> IF parseJSONFails(output.json) THEN <<>> ELSE parseJSON(output.json)]
  /\ UNCHANGED <<input, syncVars, connVars, serveVars, repoVars>>

\* Message.String, the header map being iterated in some order.
SerializeMessage ==
  /\ input.fn = "message"
  /\ output.stage = "none"
  /\ \E order \in Orders({e.key : e \in input.header}) :
       output' = [stage |-> "serialized",
                  text |-> MessageString([header |-> input.header, payload |-> input.payload],
                                         order)]
  /\ UNCHANGED <<input, syncVars, connVars, serveVars, repoVars>>

\* NewMessage of the text.
ParseMessage ==
  /\ output.stage = "serialized"
  /\ output' = [stage |-> "parsed", text |-> output.text, message |-> NewMessageText(output.text)]
  /\ UNCHANGED <<input, syncVars, connVars, serveVars, repoVars>>

CodecNext ==
  \/ ApplyPatch
  \/ ComposeTask
  \/ ReparseTask
  \/ SerializeMessage
  \/ ParseMessage

CodecSpec == CodecInit /\ [][CodecNext]_vars

(***************************************************************************)
(* The repository of organizations                                         *)
(***************************************************************************)

\* filepath.Join cleans the path: empty and "." elements are dropped and
\* ".." takes the last element away.
RECURSIVE Clean(_, _)
Clean(path, acc) ==
  IF path = <<>> THEN acc
  ELSE IF Head(path) \in {"", "."} THEN Clean(Tail(path), acc)
  ELSE IF Head(path) = ".."
    THEN Clean(Tail(path), IF acc = <<>> THEN <<>> ELSE SubSeq(acc, 1, Len(acc) - 1))
  ELSE Clean(Tail(path), Append(acc, Head(path)))

Join(path) == Clean(path, <<>>)

\* os.Mkdir fails when the path is there or its parent is not; the base
\* directory is the empty path.
MkdirFails(tree, path) ==
  \/ path \in tree \cup {<<>>}
  \/ SubSeq(path, 1, Len(path) - 1) \notin tree \cup {<<>>}

\* The names given to NewOrg, as their elements between path separators:
\* "Public", "Private", "Public/b", "Public/users", "../x", "/Ghost", "b/c".
OrgNames ==
  {<<"Public">>, <<"Private">>, <<"Public", "b">>, <<"Public", "users">>,
   <<"..", "x">>, <<"", "Ghost">>, <<"b", "c">>}

\* filepath.Join(newOrgPath, usersFolder)
usersPath(newOrgPath) == Append(newOrgPath, "users")

\* Repository.NewOrg
NewOrg(orgName) ==
  LET newOrgPath == Join(<<"orgs">> \o orgName)
      withOrg    == dirs \cup {newOrgPath}
  IN  /\ IF orgName \in orgs
           THEN /\ outcome' = [name |-> orgName, err |-> "already exists", made |-> {}]
                /\ UNCHANGED <<dirs, orgs>>
         ELSE IF MkdirFails(dirs, newOrgPath)
           THEN /\ outcome' = [name |-> orgName, err |-> "creating new org", made |-> {}]
                /\ UNCHANGED <<dirs, orgs>>
         ELSE IF MkdirFails(withOrg, usersPath(newOrgPath))
           THEN /\ outcome' = [name |-> orgName, err |-> "creating users dir under org",
                               made |-> {newOrgPath}]
                /\ dirs' = withOrg
                /\ UNCHANGED orgs
         ELSE /\ outcome' = [name |-> orgName, err |-> "",
                             made |-> {newOrgPath, usersPath(newOrgPath)}]
              /\ dirs' = withOrg \cup {usersPath(newOrgPath)}
              /\ orgs' = orgs \cup {orgName}
      /\ UNCHANGED <<syncVars, connVars, serveVars, codecVars>>

RepoNext == \E orgName \in OrgNames : NewOrg(orgName)

RepoSpec == Init /\ [][RepoNext]_vars

(***************************************************************************)
(* Properties                                                              *)
(***************************************************************************)

\* The worker has its response: at replyMessage or past it.
Answered(w) == pc[w] \in {"reply", "done"}

\* The worker answered a sync that did not fail.
Succeeded(w) == Answered(w) /\ resp[w].code \in {"200", "201"}

\* The task lines of a sequence of lines that carry the uuid.
linesOf(lines, uuid) ==
  SelectSeq(lines, LAMBDA l : IsTaskLine(l) /\ Get(NewTask(l), "uuid") = uuid)

\* Attribute a is set to value v in task t.
Holds(t, a, v) == a \in DOMAIN t /\ t[a] = v

\* Tasks t and u differ on attribute a: one has it and the other has not,
\* or both have it with different values.
Differ(t, u, a) ==
  \/ (a \in DOMAIN t) # (a \in DOMAIN u)
  \/ a \in DOMAIN t /\ a \in DOMAIN u /\ t[a] # u[a]

uuidsOf(tasks) == {Get(tasks[i], "uuid") : i \in DOMAIN tasks}

\* C1: when two workers process syncs of the same user at once, no line that
\* a sync appended and acknowledged with code 200 is lost or overwritten:
\* once the worker is done, every line of its batch is in tx.data.
C1_NoAppendedLineLost ==
  \A w \in Workers :
    (pc[w] = "done" /\ resp[w].code = "200")
      => \A i \in DOMAIN batch[w] : batch[w][i] \in Range(DataLines)

\* C2: a sync that follows a successful sync at once, sends the key that
\* sync returned and no task, is answered 201 "No change" and adds no line.
C2_ResyncNoChange ==
  \A w \in SoleWorker :
    (/\ Answered(w)
     /\ pred[w].response.code \in {"200", "201"}
     /\ req[w] = Payload(announcedKey(pred[w].response), <<>>))
      => /\ resp[w].code = "201"
         /\ resp[w].status = "No change"
         /\ batch[w] = <<>>
         /\ DataLines = sdata[w]

\* A sync has been answered 200 with a new key, and the sync that followed
\* with that key and no task has been answered.
C2_Witness ==
  \E w \in SoleWorker :
    /\ pc[w] = "done"
    /\ pred[w].response.code = "200"
    /\ pred[w].request # <<>>
    /\ announcedKey(pred[w].response) = NewUUID(2)
    /\ req[w] = <<KeyLine(NewUUID(2))>>
    /\ resp[w].code = "201"

\* C3: the log only grows by appending: in every step the content of
\* tx.data before the step is a prefix of its content after it.
C3_LogOnlyGrows == [][IsPrefix(DataLines, DataLines')]_vars

\* The last task line of the log that carries the uuid, if any.
lastOf(lines, uuid) ==
  IF linesOf(lines, uuid) = <<>> THEN <<>>
  ELSE <<linesOf(lines, uuid)[Len(linesOf(lines, uuid))]>>

\* Two syncs ran one after the other, each answered 200: both sent the same
\* sync key, a key of the log the first one read, and one snapshot each of
\* the same task, a task that log holds already.
BranchedFromSameKey(w) ==
  LET first  == getClientData(pred[w].request)
      second == getClientData(req[w])
      log    == pred[w].serverData
  IN  /\ pc[w] = "done"
      /\ pred[w].response.code = "200"
      /\ resp[w].code = "200"
      /\ first.tx = second.tx
      /\ \E i \in DOMAIN log : LineIs(log[i], first.tx)
      /\ Len(first.tasks) = 1
      /\ Len(second.tasks) = 1
      /\ Get(first.tasks[1], "uuid") = Get(second.tasks[1], "uuid")
      /\ linesOf(log, Get(first.tasks[1], "uuid")) # <<>>

\* The log the two syncs leave when the server takes them in the other order.
SwappedLog(w) ==
  applySync(applySync(pred[w].serverData, req[w], NewUUID(nextKey)),
            pred[w].request, NewUUID(nextKey + 1))

AttrNames == DOMAIN attributeTypes \cup {AnnotationName(n) : n \in Epochs}

\* The worker merged the one snapshot the client sent with the one server
\* modification of the task; the two carry the same last-modification time
\* and both set attribute a, to different values that differ from the
\* value of the common ancestor.
TieOn(w, a) ==
  /\ Succeeded(w)
  /\ Len(getClientData(req[w]).tasks) = 1
  /\ Len(work[w].newClientData) = 1
  /\ LET c    == getClientData(req[w]).tasks[1]
         anc  == findCommonAncestor(sdata[w], work[w].branchPoint, Get(c, "uuid"))
         base == NewTask(At(sdata[w], anc))
         mods == getServerMods(sdata[w], Get(c, "uuid"), anc)
     IN  /\ Len(mods) = 1
         /\ lastModification(c) = lastModification(mods[1])
         /\ a \in DOMAIN c \cap DOMAIN mods[1]
         /\ c[a] # mods[1][a]
         /\ Differ(base, c, a)
         /\ Differ(base, mods[1], a)

\* The value of attribute a in the server modification of TieOn.
ServerValue(w, a) ==
  LET c   == getClientData(req[w]).tasks[1]
      anc == findCommonAncestor(sdata[w], work[w].branchPoint, Get(c, "uuid"))
  IN  getServerMods(sdata[w], Get(c, "uuid"), anc)[1][a]

C6_EmptyOrNilKeyIsFirstSync ==
  \A w \in SoleWorker :
    (Answered(w) /\ getClientData(req[w]).tx \in {"", NilUUID})
      => /\ work[w].branchPoint = 0
         /\ resp[w].code # "500"

\* C7: a sync whose key is not empty and equals no line of the log is
\* answered 500 with the "task sync init" message of the branch point, and
\* the log keeps its lines.
C7_UnknownKeyRejected ==
  \A w \in SoleWorker :
    (/\ Answered(w)
     /\ getClientData(req[w]).tx # ""
     /\ \A i \in DOMAIN sdata[w] : ~LineIs(sdata[w][i], getClientData(req[w]).tx))
      => /\ resp[w] = NewResponseMessage("500", BranchPointNotFound)
         /\ batch[w] = <<>>
         /\ DataLines = sdata[w]

\* A request with tasks and a key the server never issued has been answered
\* 500 over a log that holds lines.
C7_Witness ==
  \E w \in SoleWorker :
    /\ pc[w] = "done"
    /\ getClientData(req[w]).tx = UnknownUUID
    /\ getClientData(req[w]).tasks # <<>>
    /\ sdata[w] # <<>>
    /\ resp[w].code = "500"
    /\ DataLines = sdata[w]

\* The UUIDs of the task lines of the log the worker read, at or after its
\* branch point.
SubsetUuids(w) ==
  {Get(NewTask(sdata[w][i]), "uuid") :
     i \in {j \in work[w].branchPoint + 1 .. Len(sdata[w]) : IsTaskLine(sdata[w][j])}}

\* The tasks of the request whose UUID is not in the subset, in order.
FreshTasks(w) ==
  SelectSeq(getClientData(req[w]).tasks, LAMBDA t : Get(t, "uuid") \notin SubsetUuids(w))

\* Every task of the request that is not in the subset is in the batch as
\* one line of canonical JSON, the batch is at the end of the log once the
\* worker is done and no line of the response carries such a task.
FreshTasksStored(w) ==
  /\ SelectSeq(batch[w], LAMBDA l : IsTaskLine(l) /\ Get(NewTask(l), "uuid") \notin SubsetUuids(w))
       = [i \in DOMAIN FreshTasks(w) |-> TaskLine(ComposeJSON(FreshTasks(w)[i]))]
  /\ pc[w] = "done" => DataLines = sdata[w] \o batch[w]
  /\ \A i \in DOMAIN resp[w].payload :
       IsTaskLine(resp[w].payload[i])
         => Get(NewTask(resp[w].payload[i]), "uuid") \in SubsetUuids(w)

\* C8 as stated: each incoming client task whose UUID is not among the
\* server task lines at or after the branch point is appended to the log as
\* exactly one canonical-JSON line and is not in the response payload.
C8_FreshTaskStoredOnce ==
  \A w \in SoleWorker :
    (Answered(w) /\ work[w].branchPoint >= 0) => FreshTasksStored(w)

\* C8 amended: the same, in a sync that does not fail (a failed merge of
\* another task of the request ends the sync with 500 and stores nothing).
C8_FreshTaskStoredOnceOnSuccess ==
  \A w \in SoleWorker :
    Succeeded(w) => FreshTasksStored(w)

\* A sync over a log that holds lines has stored a task the subset did not
\* hold, and is done.
C8_Witness ==
  \E w \in SoleWorker :
    /\ pc[w] = "done"
    /\ resp[w].code = "200"
    /\ sdata[w] # <<>>
    /\ Len(FreshTasks(w)) = 2
    /\ TaskLine(ComposeJSON(FreshTasks(w)[1])) \in Range(DataLines)
    /\ TaskLine(ComposeJSON(FreshTasks(w)[1])) \notin Range(sdata[w])

\* The UUIDs of the request that are in conflict: the subset holds them.
ConflictUuids(w) ==
  uuidsOf(getClientData(req[w]).tasks) \cap SubsetUuids(w)

\* The lines the response returns after the lines of the subset, its key
\* left out.
Returned(w) ==
  SubSeq(resp[w].payload, Len(work[w].serverSubset) + 1, Len(resp[w].payload) - 1)

\* Every UUID in conflict has one merged line in the batch and the same line
\* once among the lines returned; the batch is at the end of the log once
\* the worker is done.
MergedOnce(w) ==
  /\ \A u \in ConflictUuids(w) :
       /\ Len(linesOf(batch[w], u)) = 1
       /\ linesOf(Returned(w), u) = linesOf(batch[w], u)
  /\ pc[w] = "done" => DataLines = sdata[w] \o batch[w]

\* C9 as stated: for each task UUID in conflict, however many snapshots of
\* it the request holds, exactly one merged record is appended to the log
\* and exactly one merged record is returned to the client.
C9_ConflictMergedOnce ==
  \A w \in SoleWorker :
    (Answered(w) /\ work[w].branchPoint >= 0) => MergedOnce(w)

\* C9 amended: the same, in a sync that does not fail (a task of the subset
\* without an ancestor at or before the branch point ends the sync with 500).
C9_ConflictMergedOnceOnSuccess ==
  \A w \in SoleWorker :
    Succeeded(w) => MergedOnce(w)

\* A request with two snapshots of a task in conflict is done, one merged
\* line of that task has been added to the log.
C9_Witness ==
  \E w \in SoleWorker :
    /\ pc[w] = "done"
    /\ resp[w].code = "200"
    /\ Len(getClientMods(getClientData(req[w]).tasks, "u1")) = 2
    /\ "u1" \in ConflictUuids(w)
    /\ Len(linesOf(DataLines, "u1")) = Len(linesOf(sdata[w], "u1")) + 1

\* The attributes, other than "modified", that a chain of snapshots changes
\* one after the other, starting from base.
ChangedBy(base, mods) ==
  {a \in AttrNames \ {"modified"} :
     \E i \in DOMAIN mods : Differ(IF i = 1 THEN base ELSE mods[i - 1], mods[i], a)}

\* The common ancestor the worker merged uuid u from.
AncestorOf(w, u) ==
  NewTask(At(sdata[w], findCommonAncestor(sdata[w], work[w].branchPoint, u)))

ClientModsOf(w, u) == getClientMods(getClientData(req[w]).tasks, u)

ServerModsOf(w, u) ==
  getServerMods(sdata[w], u, findCommonAncestor(sdata[w], work[w].branchPoint, u))

\* The merged task of uuid u, as returned to the client.
MergedOf(w, u) == NewTask(linesOf(Returned(w), u)[1])

\* C10: when the client modifications and the server modifications of a
\* task change disjoint sets of attributes relative to the common ancestor
\* ("modified", which every modification bumps, left aside), the merged task
\* carries every change of either side: each changed attribute is as the
\* last snapshot of the side that changed it has it.
C10_DisjointChangesKept ==
  \A w \in SoleWorker :
    Succeeded(w) =>
      \A u \in ConflictUuids(w) :
        (ChangedBy(AncestorOf(w, u), ClientModsOf(w, u))
           \cap ChangedBy(AncestorOf(w, u), ServerModsOf(w, u)) = {})
          => /\ \A a \in ChangedBy(AncestorOf(w, u), ClientModsOf(w, u)) :
                  ~Differ(MergedOf(w, u), ClientModsOf(w, u)[Len(ClientModsOf(w, u))], a)
             /\ \A a \in ChangedBy(AncestorOf(w, u), ServerModsOf(w, u)) :
                  ~Differ(MergedOf(w, u), ServerModsOf(w, u)[Len(ServerModsOf(w, u))], a)

\* The client annotated a task whose due date and tags another client had
\* set since the branch point: the merge carries the three.
C10_Witness ==
  \E w \in SoleWorker :
    /\ pc[w] = "done"
    /\ resp[w].code = "200"
    /\ "u1" \in ConflictUuids(w)
    /\ ChangedBy(AncestorOf(w, "u1"), ClientModsOf(w, "u1")) = {AnnotationName(2)}
    /\ ChangedBy(AncestorOf(w, "u1"), ServerModsOf(w, "u1")) = {"due", "tags"}
    /\ Holds(MergedOf(w, "u1"), AnnotationName(2), "hi")
    /\ Holds(MergedOf(w, "u1"), "due", 4)
    /\ Holds(MergedOf(w, "u1"), "tags", <<"C">>)
    /\ lastOf(DataLines, "u1") = linesOf(Returned(w), "u1")

\* The keys of the lines of a log that are not task lines.
KeysOf(lines) == {lines[i].key : i \in {j \in DOMAIN lines : ~IsTaskLine(lines[j])}}

\* C11: a sync that produces at least one new server line mints a fresh
\* sync key, hands Append one batch, the new task lines followed by that
\* key as the last line, and announces that key in its response; the batch
\* is in the log once when the worker is done.  (Append does not fail here.)
C11_NewLinesGetFreshKey ==
  \A w \in SoleWorker :
    (Answered(w) /\ ~work[w].failed /\ Len(work[w].newServerData) > 0)
      => /\ Len(batch[w]) = Len(work[w].newServerData) + 1
         /\ SubSeq(batch[w], 1, Len(batch[w]) - 1) = work[w].newServerData
         /\ \A i \in 1 .. Len(batch[w]) - 1 : IsTaskLine(batch[w][i])
         /\ ~IsTaskLine(batch[w][Len(batch[w])])
         /\ batch[w][Len(batch[w])].key \notin KeysOf(sdata[w]) \cup {""}
         /\ resp[w].code = "200"
         /\ announcedKey(resp[w]) = batch[w][Len(batch[w])].key
         /\ DataLines = sdata[w] \o batch[w]

\* A sync over a log with a key has stored two tasks under a new key and
\* is done.
C11_Witness ==
  \E w \in SoleWorker :
    /\ pc[w] = "done"
    /\ Len(work[w].newServerData) = 2
    /\ KeysOf(sdata[w]) # {}
    /\ announcedKey(resp[w]) \in KeysOf(DataLines) \ KeysOf(sdata[w])

\* C12: a sync that does not fail and produces no new server line does not
\* call Append (the log keeps its lines) and announces the most recent
\* non-task line of the log, the empty key when the log has none.
C12_NoLineReusesLastKey ==
  \A w \in SoleWorker :
    (Answered(w) /\ ~work[w].failed /\ Len(work[w].newServerData) = 0)
      => /\ batch[w] = <<>>
         /\ DataLines = sdata[w]
         /\ \/ KeysOf(sdata[w]) = {} /\ announcedKey(resp[w]) = ""
            \/ \E i \in DOMAIN sdata[w] :
                 /\ ~IsTaskLine(sdata[w][i])
                 /\ \A j \in i + 1 .. Len(sdata[w]) : IsTaskLine(sdata[w][j])
                 /\ announcedKey(resp[w]) = sdata[w][i].key

\* A sync without tasks over a log with two keys, sent with the older key,
\* has been answered with the newer key.
C12_Witness ==
  \E w \in SoleWorker :
    /\ pc[w] = "done"
    /\ ~work[w].failed
    /\ Len(work[w].newServerData) = 0
    /\ Cardinality(KeysOf(sdata[w])) = 2
    /\ getClientData(req[w]).tx = NewUUID(1)
    /\ announcedKey(resp[w]) = NewUUID(2)

\* C13: a sync that does not fail answers 200 "Ok" exactly when the log
\* holds a task line at or after the branch point, or a task was merged, or
\* there is a new server line; otherwise it answers 201 "No change".
C13_CodeTellsChange ==
  \A w \in SoleWorker :
    (Answered(w) /\ ~work[w].failed)
      => IF \/ SubsetUuids(w) # {}
            \/ Len(work[w].newClientData) > 0
            \/ Len(batch[w]) > 0
           THEN resp[w].code = "200" /\ resp[w].status = "Ok"
           ELSE resp[w].code = "201" /\ resp[w].status = "No change"

\* A sync that stored and merged nothing has been answered 200 because the
\* log holds tasks after its branch point.
C13_Witness ==
  \E w \in SoleWorker :
    /\ pc[w] = "done"
    /\ ~work[w].failed
    /\ SubsetUuids(w) # {}
    /\ work[w].newClientData = <<>>
    /\ batch[w] = <<>>
    /\ resp[w].code = "200"

\* C14: at every instant the handlers that are running are at most the
\* pool size, however many clients connect; so are the goroutines that
\* hold a slot of the pool.
C14_HandlersWithinPool ==
  /\ running <= QueueSize
  /\ InFlight <= concurrency
  /\ concurrency <= QueueSize

\* The pool is full of running handlers and further clients wait.
C14_Witness ==
  /\ running = QueueSize
  /\ backlog > 0
  /\ arrived > QueueSize

\* C15 as stated: while queue.size handlers are in flight the accept loop
\* takes no connection from the listener.
C15_NoAcceptWhenFull ==
  [][accepted' # accepted => InFlight < QueueSize]_vars

\* C15 amended: while queue.size handlers are in flight the accept loop
\* takes one connection at most, which waits in the loop: Accept returns a
\* connection only when the loop holds none, and a handler goroutine is
\* created only when fewer than queue.size hold a slot.
C15_OneExcessWaits ==
  [][/\ accepted' # accepted => conn = "none"
     /\ spawned' > spawned => InFlight < QueueSize]_vars

\* The pool is full and the loop holds one more accepted connection, blocked
\* on the channel.
C15_Witness ==
  /\ InFlight = QueueSize
  /\ running = QueueSize
  /\ conn = "conn"
  /\ servePc = "acquire"
  /\ accepted = QueueSize + 1

\* C16: once Close has returned the accept loop has exited and every
\* handler that was started has returned, none is running; and no handler
\* is started afterwards.
C16_CloseDrains ==
  /\ [](closePc = "returned"
          => servePc = "exited" /\ spawned + running + returned + released = 0)
  /\ [][closePc = "returned" => spawned' <= spawned /\ running' <= running]_vars

\* Close was called with handlers in flight and has returned after they did.
C16_Witness ==
  /\ closePc = "returned"
  /\ accepted >= 2
  /\ wg = 0
  /\ listener = "closed"

C18_ClosedOnce ==
  \A w \in SoleWorker :
    /\ pc[w] \in {"done", "panicked"} => closed[w] = 1
    /\ pc[w] \notin {"done", "panicked"} => closed[w] = 0

\* The handler returned after a failure to write the response of a sync.
C18_Witness ==
  \E w \in SoleWorker :
    /\ pc[w] = "done"
    /\ closed[w] = 1
    /\ resp[w].code = "200"
    /\ writable[w] < 2
    /\ out[w] # Serialize(resp[w])

\* C20: whatever the reads deliver of a frame, the message the server goes
\* on with is the message the client sent, and no well formed frame is
\* answered as one without separator.
C20_ShortReadsRetried ==
  \A w \in SoleWorker :
    /\ DOMAIN msg[w].header # {}
         => /\ msg[w].header = NewMessage(wire[w].body).header
            /\ msg[w].payload = NewMessage(wire[w].body).payload
    /\ resp[w].status # SeparatorNotFound

\* C19: at every step of an append, and after an append that failed, the
\* log holds no partial batch: it does not end with task lines that lack
\* their sync key, and the sync key of a batch stands in it only right
\* after all the other lines of that batch.
C19_AppendAtomic ==
  /\ DataLines # <<>> => ~IsTaskLine(DataLines[Len(DataLines)])
  /\ \A w \in Workers : \A j \in DOMAIN DataLines :
       batch[w] # <<>> /\ DataLines[j] = batch[w][Len(batch[w])]
         => /\ j >= Len(batch[w])
            /\ SubSeq(DataLines, j - Len(batch[w]) + 1, j) = batch[w]

\* The handler of w has not touched the log of the user.
NoLogAccess(w) == work[w] = NoWork /\ sdata[w] = <<>> /\ batch[w] = <<>>

\* C21: a request whose frame announces more than the request limit is
\* answered with code 504, its body is not read and the log is not touched.
C21_TooBigIs504 ==
  \A w \in SoleWorker :
    /\ pc[w] \in {"reply", "done"}
    /\ wire[w].size > RequestLimitInBytes
    /\ resp[w].status # "reading size"
    => /\ resp[w].code = "504"
       /\ msg[w] = NoMsg
       /\ NoLogAccess(w)

\* The error of the authentication of the frame w was sent.
AuthErrorOf(w) ==
  LET sent == NewMessage(wire[w].body)
  IN  Authenticate(HeaderOf(sent, "org"), HeaderOf(sent, "user"), HeaderOf(sent, "key"))

\* C22: when the authentication of a request fails the response carries the
\* code of the authentication error, 400 for an unknown organization and 401
\* for a user name or key that does not match.
C22_AuthErrorCode ==
  \A w \in SoleWorker :
    /\ pc[w] \in {"reply", "done"}
    /\ DOMAIN msg[w].header # {}
    /\ AuthErrorOf(w).failed
    => resp[w].code = AuthErrorOf(w).code

\* C23: a request of the right user whose protocol is not v1 is answered
\* with code 400 and the log of the user is neither read nor appended to.
C23_ProtocolNotSupported ==
  \A w \in SoleWorker :
    /\ pc[w] \notin {"idle", "recvSize", "recvBody", "valid"}
    /\ DOMAIN msg[w].header # {}
    /\ ~Authenticate(HeaderOf(msg[w], "org"), HeaderOf(msg[w], "user"), HeaderOf(msg[w], "key")).failed
    /\ HeaderOf(msg[w], "protocol") # "v1"
    => /\ resp[w].code = "400"
       /\ NoLogAccess(w)
       /\ pc[w] \in {"reply", "done"}

\* A request with protocol v2 was answered.
C23_Witness ==
  \E w \in SoleWorker :
    /\ pc[w] = "done"
    /\ HeaderOf(msg[w], "protocol") = "v2"
    /\ HeaderOf(msg[w], "key") = SyncHeader.key
    /\ resp[w].code = "400"
    /\ out[w] = Serialize(resp[w])

\* The 0-based indexes of the task lines of a log that do not parse.
CorruptAt(data) ==
  {i \in 0 .. Len(data) - 1 : IsTaskLine(At(data, i)) /\ NewTaskFails(At(data, i))}

\* The 0-based indexes, up to the branch point, of the task lines of a log
\* whose JSON carries the uuid.
CarriedAt(data, branchPoint, uuid) ==
  {i \in 0 .. Min({branchPoint, Len(data) - 1}) :
     IsTaskLine(At(data, i)) /\ Get(At(data, i).json, "uuid") = uuid}

\* The sync of w was answered with 500 and appended nothing.
FailedClean(w) ==
  /\ resp[w].code = "500"
  /\ batch[w] = <<>>
  /\ DataLines = sdata[w]

\* C24 as stated: a sync on a log with a task line that does not parse is
\* answered with 500 and appends nothing.
C24_CorruptLineFailsSync ==
  \A w \in SoleWorker :
    Answered(w) /\ CorruptAt(sdata[w]) # {} => FailedClean(w)

\* The sync of w has to parse a line of the log that does not parse: one at
\* or after the branch point, or one the search of the common ancestor of a
\* task in conflict meets before a line of that task.
MeetsCorrupt(w) ==
  LET bp == work[w].branchPoint
  IN  /\ bp >= 0
      /\ \/ \E i \in CorruptAt(sdata[w]) : i >= bp
         \/ \E u \in uuidsOf(getClientData(req[w]).tasks) :
              /\ \E j \in bp .. Len(sdata[w]) - 1 :
                   IsTaskLine(At(sdata[w], j)) /\ Get(At(sdata[w], j).json, "uuid") = u
              /\ \E i \in CorruptAt(sdata[w]) :
                   i <= bp /\ \A j \in CarriedAt(sdata[w], bp, u) : j < i

\* C24 amended: a sync that has to parse a task line of the log that does
\* not parse is answered with 500 and appends nothing.
C24_ParsedCorruptLineFailsSync ==
  \A w \in SoleWorker :
    Answered(w) /\ MeetsCorrupt(w) => FailedClean(w)

\* A sync that sent a task was refused for a corrupt line after its branch
\* point.
C24_Witness ==
  \E w \in SoleWorker :
    /\ pc[w] = "done"
    /\ work[w].branchPoint > 0
    /\ \E i \in CorruptAt(sdata[w]) : i >= work[w].branchPoint
    /\ getClientData(req[w]).tasks # <<>>
    /\ FailedClean(w)

\* C25: a sync whose payload has a task line that does not parse is answered
\* with an error and appends nothing.
C25_CorruptPayloadRefused ==
  \A w \in SoleWorker :
    /\ Answered(w)
    /\ \E i \in DOMAIN req[w] : IsTaskLine(req[w][i]) /\ NewTaskFails(req[w][i])
    => /\ resp[w].code \in {"500", "400"}
       /\ batch[w] = <<>>
       /\ DataLines = sdata[w]

\* C30: the common ancestor of a task in conflict is the line of the log
\* with the greatest index, up to the branch point, that carries its uuid.
C30_MostRecentAncestor ==
  \A w \in SoleWorker :
    Succeeded(w) =>
      \A u \in ConflictUuids(w) :
        findCommonAncestor(sdata[w], work[w].branchPoint, u)
          = Max(CarriedAt(sdata[w], work[w].branchPoint, u))

\* A task in conflict was merged whose uuid two lines carry up to the branch
\* point.
C30_Witness ==
  \E w \in SoleWorker :
    /\ pc[w] = "done"
    /\ Succeeded(w)
    /\ \E u \in ConflictUuids(w) :
         Cardinality(CarriedAt(sdata[w], work[w].branchPoint, u)) >= 2

\* C26: patch(base, a, a) is base, for every task base and every task a.
C26_PatchSameIsIdentity ==
  output.stage = "patched" /\ input.from = input.to => output.task = input.base

\* patch(base, a, a) was applied to a base that differs from a in the
\* attributes it has.
C26_Witness ==
  /\ output.stage = "patched"
  /\ input.from = input.to
  /\ DOMAIN input.base # DOMAIN input.from
  /\ output.task = input.base

\* No "\n\n" in the text.
NoBlankLine(text) == Len(Split(text, SEP)) = 1

\* C27: a message whose header values and payload hold no blank line
\* separator is parsed, from its text, into the same headers and payload.
C27_MessageRoundTrip ==
  /\ output.stage = "parsed"
  /\ \A e \in input.header : NoBlankLine(e.value)
  /\ NoBlankLine(input.payload)
  => /\ ~output.message.failed
     /\ output.message.header = input.header
     /\ output.message.payload = input.payload

\* C28: the task parsed from the JSON that ComposeJSON emits for a task the
\* parser produced has the attributes of that task.
C28_TaskRoundTrip ==
  output.stage = "reparsed" => ~output.failed /\ output.again = output.task

\* C29: NewOrg with a name that holds a path separator fails and makes no
\* directory, whatever the organizations that exist.
C29_SeparatorRejected ==
  Len(outcome.name) > 1 => outcome.err # "" /\ outcome.made = {}

\* A task line of the log at or after the branch point has a JSON that
\* carries the uuid.
CarriedFrom(data, branchPoint, uuid) ==
  \E j \in branchPoint .. Len(data) - 1 :
    IsTaskLine(At(data, j)) /\ Get(At(data, j).json, "uuid") = uuid

\* The UUIDs of the tasks of the request that a task line at or after the
\* branch point carries and no task line at or before it.
MissingAncestor(w) ==
  {u \in uuidsOf(getClientData(req[w]).tasks) :
     /\ work[w].branchPoint >= 0
     /\ CarriedFrom(sdata[w], work[w].branchPoint, u)
     /\ CarriedAt(sdata[w], work[w].branchPoint, u) = {}}

SubsetLines(w) ==
  SelectSeq(SubSeq(sdata[w], work[w].branchPoint + 1, Len(sdata[w])), IsTaskLine)

\* C32: the payload of a response with code 200 or 201 is the server task
\* lines at or after the branch point in the order of the log, then one
\* merged line for each task in conflict, then the sync key as the last
\* line.
C32_PayloadOrder ==
  \A w \in SoleWorker :
    Succeeded(w) =>
      LET p == resp[w].payload
          n == Len(SubsetLines(w))
      IN  /\ Len(p) = n + Cardinality(ConflictUuids(w)) + 1
          /\ SubSeq(p, 1, n) = SubsetLines(w)
          /\ \A i \in n + 1 .. Len(p) - 1 :
               /\ IsTaskLine(p[i])
               /\ Get(NewTask(p[i]), "uuid") \in ConflictUuids(w)
               /\ \E j \in DOMAIN batch[w] : batch[w][j] = p[i]
          /\ \A u \in ConflictUuids(w) : \E i \in n + 1 .. Len(p) - 1 :
               IsTaskLine(p[i]) /\ Get(NewTask(p[i]), "uuid") = u
          /\ ~IsTaskLine(p[Len(p)])

\* A sync has been answered 200 with two server task lines followed by a
\* merged line and the key.
C32_Witness ==
  \E w \in SoleWorker :
    /\ Succeeded(w)
    /\ Len(SubsetLines(w)) = 2
    /\ ConflictUuids(w) # {}
    /\ Len(resp[w].payload) = 4
    /\ resp[w].payload[3] \notin Range(SubsetLines(w))

\* The tasks of the request that come before the first task with the uuid.
TasksBefore(w, uuid) ==
  LET tasks == getClientData(req[w]).tasks
      first == Min({i \in DOMAIN tasks : Get(tasks[i], "uuid") = uuid})
  IN  SubSeq(tasks, 1, first - 1)

\* C33: a sync that fails on a task of the request, because the task has no
\* ancestor at or before the branch point or because a stored record does
\* not parse, appends no line of the request, the tasks that came before the
\* failing one included.
C33_FailedSyncAppendsNothing ==
  \A w \in SoleWorker :
    (Answered(w) /\ (MissingAncestor(w) # {} \/ MeetsCorrupt(w)))
      => /\ resp[w].code = "500"
         /\ batch[w] = <<>>
         /\ DataLines = sdata[w]

\* A sync failed on a task without ancestor after a task of the request
\* that the log did not carry after the branch point; the worker is done
\* and the log is as it was read.
C33_Witness ==
  \E w \in SoleWorker :
    /\ pc[w] = "done"
    /\ resp[w].code = "500"
    /\ \E u \in MissingAncestor(w) :
         \E i \in DOMAIN TasksBefore(w, u) :
           ~CarriedFrom(sdata[w], work[w].branchPoint, Get(TasksBefore(w, u)[i], "uuid"))
    /\ DataLines = sdata[w]

\* A sync failed on a stored record that does not parse, met in the search
\* for an ancestor, after a task of the request had been accepted.
C33_WitnessCorrupt ==
  \E w \in SoleWorker :
    /\ pc[w] = "done"
    /\ resp[w].code = "500"
    /\ work[w].alreadySeen # {}
    /\ MeetsCorrupt(w)
    /\ \E u \in work[w].alreadySeen : TasksBefore(w, u) # <<>>
    /\ DataLines = sdata[w]

\* No worker is serving a request.
Quiet == \A w \in Workers : pc[w] \in {"idle", "done"}

\* C34: once no request is being served, the key announced by a sync that
\* answered 200 or 201 is empty, the log holding no key, or it is a line of
\* the log, so that findBranchPoint finds it.
C34_AnnouncedKeyInLog ==
  Quiet =>
    \A w \in Workers :
      (pc[w] = "done" /\ Succeeded(w))
        => \/ announcedKey(resp[w]) = "" /\ KeysOf(DataLines) = {}
           \/ /\ announcedKey(resp[w]) \in KeysOf(DataLines)
              /\ findBranchPoint(DataLines, announcedKey(resp[w])) >= 0

\* The log is a sequence of generations: it does not start with a key, it
\* does not end with a task line and no key follows a key.
Generations(lines) ==
  /\ lines # <<>> => IsTaskLine(lines[1]) /\ ~IsTaskLine(lines[Len(lines)])
  /\ \A i \in 1 .. Len(lines) - 1 : ~IsTaskLine(lines[i]) => IsTaskLine(lines[i + 1])

\* C35: once no request is being served, the log is a sequence of
\* generations, one or more task lines followed by one sync key each.
C35_LogOfGenerations == Quiet => Generations(DataLines)

\* C36: a handler goroutine is created only for a connection that Accept
\* returned: when Accept fails and serve does not return, the loop goes back
\* to Accept and no handler is started for the failed call.
C36_HandlerOnlyForAccepted ==
  [][/\ spawned' > spawned => conn = "conn"
     /\ (servePc = "accept" /\ servePc' = "add") => conn' = "conn"]_vars

(***************************************************************************)
(* The accept loop under fair scheduling, for each pool size               *)
(***************************************************************************)

\* The values of queue.size the server starts with: newTLSServer hands
\* cfg.GetInt(QueueSize) to make(chan interface{}, maxConcurrency) as it is.
PoolSizes == 0 .. QueueSize

PoolInit == InitServer(InitLogs, {<<>>}, PoolSizes) /\ CodecIdle /\ RepoInit

\* The goroutine of serve and the goroutines of the handlers are scheduled
\* whenever they can take a step, and every handler that runs returns.
PoolSpec ==
  /\ PoolInit
  /\ [][ServeNext]_vars
  /\ WF_vars(WgAdd)
  /\ WF_vars(Acquire)
  /\ WF_vars(Spawn)
  /\ WF_vars(HandlerStarts)
  /\ WF_vars(HandlerReturns)
  /\ WF_vars(ReleaseSlot)
  /\ WF_vars(WgDone)

\* C37: whatever the pool size, a connection that Accept returned is
\* eventually given to a handler goroutine, and the goroutine eventually
\* calls the handler with it.
C37_AcceptedIsHandled ==
  /\ (conn = "conn") ~> (conn = "none")
  /\ (spawned > 0) ~> (spawned = 0)

\* The same for the pool sizes that are not zero.
C37_AcceptedIsHandledPositive ==
  (maxConcurrency > 0) =>
    /\ (conn = "conn") ~> (conn = "none")
    /\ (spawned > 0) ~> (spawned = 0)

\* C38: the sync key of the client is the first line of the payload: when
\* the payload starts with a UUID line, that line gives the branch point,
\* whatever UUID lines follow it.
C38_FirstLineIsKey ==
  \A w \in SoleWorker :
    (Answered(w) /\ req[w] # <<>> /\ ~IsTaskLine(req[w][1]) /\ IsUUID(req[w][1].key))
      => work[w].branchPoint = findBranchPoint(sdata[w], req[w][1].key)

\* C39: a frame that declares a length below four is answered with an error
\* response, the handler does not panic and returns with the connection
\* closed once.
C39_ShortLengthRejected ==
  \A w \in SoleWorker :
    (/\ pc[w] \notin {"idle", "recvSize"}
     /\ wire[w].size < 4
     /\ resp[w].status # "reading size")
      => /\ pc[w] \in {"reply", "done"}
         /\ resp[w].code = "500"
         /\ pc[w] = "done" => closed[w] = 1

\* C40: the rename that ends a successful append leaves in tx.data the
\* lines it held before (none when it was missing) followed by the lines
\* handed to Append, whatever tx.tmp.data held when Append was called.
C40_AppendIgnoresLeftover ==
  [][\A w \in SoleWorker :
       (pc[w] \in {"write", "writeAt"} /\ pc'[w] = "reply" /\ txTemp # NoFile)
         => DataLines' = DataLines \o batch[w]]_vars

\* The same when tx.data is there at the call.
C40_AppendIgnoresLeftoverOnCopy ==
  [][\A w \in SoleWorker :
       (pc[w] = "write" /\ pc'[w] = "reply" /\ txTemp # NoFile)
         => DataLines' = DataLines \o batch[w]]_vars

====
